---- MODULE Spec2Model ----
(***************************************************************************)
(* The safe synchronization engine of claude_sync: JsonSyncStateDatabase,  *)
(* BackupManager, SyncValidator and SafeSync, run against a local tree and *)
(* a remote knowledge base.                                                *)
(*                                                                         *)
(* Time is one logical clock.  Every change made from outside the engine   *)
(* (an edit, a touch, a deletion, a lost store) advances it by one tick;   *)
(* everything the engine stamps during a run (mtime of a written file,     *)
(* updatedAt of an uploaded file, lastSyncTime, createdAt) reads it.  So   *)
(* a stamp taken by the engine is never earlier than a change that came    *)
(* before it and always earlier than a change that comes after it.         *)
(***************************************************************************)
EXTENDS Integers, Sequences, FiniteSets, TLC

---------------------------------------------------------------------------
(* Bounds of the model *)

\* changes made from outside the engine, over one behaviour
MaxClock == 3

\* sync() calls over one behaviour
MaxRuns == 2

\* injected failures (remote, filesystem, store write) and races with another
\* client over one behaviour
MaxFailures == 1

\* issues one validate() call reports
MaxIssues == 2

\* conflicts one validate() call reports beyond maxConflictCount
MaxExcess == 2

\* ticks of the clock while backups are made and restored
MaxTime == 3

\* createBackup calls over one behaviour
MaxBackups == 4

\* backup ids on record or on disk when a restore is asked for
MaxBackupIds == 2

\* calls made to a MockClaudeClient over one behaviour
MaxMockCalls == 4

\* watchers a FileTracker creates over one behaviour
MaxWatchers == 2

\* relative paths of the project, in scan / listing order
PathSeq == <<"a", "b">>

Paths == {PathSeq[i] : i \in 1..Len(PathSeq)}

\* file contents (0 is the content of no file)
Contents == {1, 2}

---------------------------------------------------------------------------
(* Program constants *)

\* SafeSync default backup.retentionCount
RetentionCount == 5

\* SafeSync default validation.maxConflictCount
MaxConflictCount == 10

Directions == {"upload", "download", "both"}

Resolutions == {"ask", "skip", "local_wins", "remote_wins", "backup_and_merge"}

---------------------------------------------------------------------------
(* Data *)

\* calculateFileHash: SHA-256 of the bytes, injective on the contents used
calculateFileHash(content) == 100 + content

NoLocal == [exists |-> FALSE, content |-> 0, mtime |-> 0]

NoRemote == [exists |-> FALSE, content |-> 0, updatedAt |-> 0]

\* the Map of JsonSyncStateDatabase has no entry for the key
NoEntry == [tracked |-> FALSE, localHash |-> 0, remoteHash |-> 0, localMtime |-> 0,
            remoteMtime |-> 0, lastSyncTime |-> 0, syncDirection |-> "none",
            isDeleted |-> FALSE]

EmptyStates == [p \in Paths |-> NoEntry]

\* the SyncResult sync() starts from
InitialResult ==
    [success |-> FALSE, dryRun |-> FALSE, operations |-> <<>>,
     executedOperations |-> <<>>, skippedOperations |-> <<>>,
     errors |-> <<>>, warnings |-> <<>>,
     filesUploaded |-> 0, filesDownloaded |-> 0, conflictsResolved |-> 0,
     backupsCreated |-> 0, totalOperations |-> 0,
     validated |-> FALSE, canProceed |-> TRUE, conflicts |-> <<>>]

DefaultOptions ==
    [direction |-> "both", dryRun |-> FALSE, backupEnabled |-> TRUE,
     validationEnabled |-> TRUE, conflictResolution |-> "ask", force |-> FALSE]

VARIABLES
    local,        \* the local tree: path -> file
    remote,       \* the remote knowledge base: path -> file
    storeFile,    \* ~/.claude-sync/state/<project>.json
    backupFiles,  \* the .bak files on disk: backupId -> content
    syncStates,   \* JsonSyncStateDatabase.syncStates
    backups,      \* JsonSyncStateDatabase.backups
    initialized,  \* JsonSyncStateDatabase.initialized
    options,      \* SafeSync.options of the running instance
    result,       \* the SyncResult of the run
    pc,           \* position of sync()
    opIndex,      \* executeOperations: index of the next operation
    unreadable,   \* local files that cannot be opened during the run (EACCES)
    lastRun,      \* the caller's note of the previous call, until the world changes
    clock,        \* logical time
    runs,         \* sync() calls so far
    failures,     \* failures and races injected so far
    validation,   \* a SyncValidator.validate call on its own: what it found, its answer
    bm,           \* a BackupManager.createBackup call on its own, step by step
    rs,           \* a BackupManager.restoreFromBackup call, step by step
    tempFile,     \* the store's temp file, `${dbPath}.tmp`
    saving,       \* position of JsonSyncStateDatabase.save()
    legacy,       \* a syncFiles call of the legacy sync, step by step
    mock,         \* a MockClaudeClient: its files, and what was asked of it
    tracker,      \* a FileTracker: its watcher and files, and what it was told
    upload        \* an executeUpload call on its own, step by step

vars == <<local, remote, storeFile, backupFiles, syncStates, backups, initialized,
          options, result, pc, opIndex, unreadable, lastRun, clock, runs, failures,
          validation, bm, rs, tempFile, saving, legacy, mock, tracker, upload>>

\* the calls and modules studied on their own, outside sync()
calls == <<validation, bm, rs, tempFile, saving, legacy, mock, tracker, upload>>

world == <<local, remote, storeFile, backupFiles>>

engine == <<syncStates, backups, initialized, options, result, pc, opIndex,
            unreadable>>

\* the configurations a SafeSync is constructed with: every direction, with the
\* defaults of the other options or with one of them away from its default
OptionSpace ==
    {o \in [direction : Directions, dryRun : BOOLEAN, backupEnabled : BOOLEAN,
            validationEnabled : BOOLEAN, conflictResolution : Resolutions,
            force : BOOLEAN] :
        Cardinality({x \in {"dryRun", "backup", "validation", "force", "resolution"} :
            CASE x = "dryRun" -> o.dryRun
              [] x = "backup" -> ~o.backupEnabled
              [] x = "validation" -> ~o.validationEnabled
              [] x = "force" -> o.force
              [] x = "resolution" -> o.conflictResolution # "ask"}) <= 1}

NoStore == [status |-> "missing", syncStates |-> EmptyStates, backups |-> {}]

Conflict(p, type) == [filePath |-> p, conflictType |-> type]

Issue(type, code) == [type |-> type, code |-> code]

NoRun == [kind |-> "none", dryRun |-> FALSE, clean |-> FALSE, unreadable |-> {}]

NoValidation == [issues |-> <<>>, conflicts |-> <<>>, allowForce |-> FALSE,
                 returned |-> FALSE, canProceed |-> FALSE]

NoBackupCall == [retentionCount |-> RetentionCount, pc |-> "idle", originalPath |-> "",
                 backupId |-> 0, fileHash |-> 0, success |-> "none", error |-> "none",
                 started |-> 0, succeeded |-> [p \in Paths |-> 0]]

NoRestore == [pc |-> "idle", backupId |-> 0, originalPath |-> "", fileHash |-> 0,
              success |-> "none"]

NoTemp == [status |-> "missing", syncStates |-> EmptyStates, backups |-> {}]

NoLegacy == [pc |-> "idle", configured |-> TRUE, direction |-> "both",
             files |-> <<>>, next |-> 1, log |-> <<>>, outcome |-> "none",
             error |-> "none"]

NoMock == [files |-> {}, live |-> {}, listed |-> {}, issued |-> 0, calls |-> 0,
           last |-> [op |-> "none", known |-> TRUE, path |-> "", content |-> 0,
                     id |-> 0, ok |-> TRUE]]

\* latest: the most recent add, change or unlink told of each path since the
\* last close() call; emitted: the event emitted last
NoTracker == [watcher |-> FALSE, isWatching |-> FALSE, created |-> 0, files |-> {},
              latest |-> [p \in Paths |-> "none"], emitted |-> <<>>,
              last |-> [op |-> "none", returned |-> "none"]]

\* no executeUpload call is studied on its own
NoUpload == [pc |-> "idle", filePath |-> "", content |-> 0, planned |-> FALSE]

\* the legacy sync, the mock client and the file tracker are not in use
NoOthers ==
    /\ legacy = NoLegacy
    /\ mock = NoMock
    /\ tracker = NoTracker
    /\ upload = NoUpload

\* no call is studied on its own
NoCalls ==
    /\ validation = NoValidation
    /\ bm = NoBackupCall
    /\ rs = NoRestore
    /\ tempFile = NoTemp
    /\ saving = "no"
    /\ NoOthers

Init ==
    /\ local = [p \in Paths |-> NoLocal]
    /\ remote = [p \in Paths |-> NoRemote]
    /\ storeFile = NoStore
    /\ backupFiles = {}
    /\ syncStates = EmptyStates
    /\ backups = {}
    /\ initialized = FALSE
    /\ options \in OptionSpace
    /\ result = InitialResult
    /\ pc = "idle"
    /\ opIndex = 1
    /\ unreadable = {}
    /\ lastRun = NoRun
    /\ clock = 0
    /\ runs = 0
    /\ failures = 0
    /\ NoCalls

---------------------------------------------------------------------------
(* The world outside the engine, between two sync() calls *)

Outside ==
    /\ pc = "idle"
    /\ clock < MaxClock
    /\ clock' = clock + 1
    /\ lastRun' = NoRun
    /\ UNCHANGED <<engine, runs, failures, calls>>

\* the user writes a file (creates it or changes its bytes)
LocalWrite ==
    /\ Outside
    /\ \E p \in Paths, c \in Contents :
        /\ local[p].content # c
        /\ local' = [local EXCEPT ![p] =
                [exists |-> TRUE, content |-> c, mtime |-> clock']]
    /\ UNCHANGED <<remote, storeFile, backupFiles>>

\* touch: the modification time changes, the bytes do not
LocalTouch ==
    /\ Outside
    /\ \E p \in Paths :
        /\ local[p].exists
        /\ local' = [local EXCEPT ![p].mtime = clock']
    /\ UNCHANGED <<remote, storeFile, backupFiles>>

LocalDelete ==
    /\ Outside
    /\ \E p \in Paths :
        /\ local[p].exists
        /\ local' = [local EXCEPT ![p] = NoLocal]
    /\ UNCHANGED <<remote, storeFile, backupFiles>>

\* another client writes a remote file
RemoteWrite ==
    /\ Outside
    /\ \E p \in Paths, c \in Contents :
        /\ remote[p].content # c
        /\ remote' = [remote EXCEPT ![p] =
                [exists |-> TRUE, content |-> c, updatedAt |-> clock']]
    /\ UNCHANGED <<local, storeFile, backupFiles>>

RemoteDelete ==
    /\ Outside
    /\ \E p \in Paths :
        /\ remote[p].exists
        /\ remote' = [remote EXCEPT ![p] = NoRemote]
    /\ UNCHANGED <<local, storeFile, backupFiles>>

\* the store file is deleted or damaged
StoreLost ==
    /\ Outside
    /\ storeFile.status = "ok"
    /\ \E s \in {"missing", "corrupt"} :
        storeFile' = [NoStore EXCEPT !.status = s]
    /\ UNCHANGED <<local, remote, backupFiles>>

---------------------------------------------------------------------------
(* JsonSyncStateDatabase *)

\* save(): the whole state, serialized, written to a temp file and renamed
save(states, bks) == [status |-> "ok", syncStates |-> states, backups |-> bks]

\* initialize(): a missing or unparsable file loads as nothing
LoadStates(file) == IF file.status = "ok" THEN file.syncStates ELSE EmptyStates

LoadBackups(file) == IF file.status = "ok" THEN file.backups ELSE {}

\* listBackups order: newest first, ties in insertion order (the sort is stable)
Before(b1, b2) ==
    \/ b1.createdAt > b2.createdAt
    \/ b1.createdAt = b2.createdAt /\ b1.backupId < b2.backupId

\* cleanupOldBackups: per original path, everything after the newest
\* retentionCount entries is deleted (entry and file)
ToDelete(bks, retentionCount) ==
    {b \in bks :
        Cardinality({o \in bks : o.originalPath = b.originalPath /\ Before(o, b)})
            >= retentionCount}

\* a cleanup that ranks the backups of all paths together
cleanupOldBackupsAcrossPaths(bks, retentionCount) ==
    {b \in bks : Cardinality({o \in bks : Before(o, b)}) < retentionCount}

cleanupOldBackups(bks, retentionCount) == bks \ ToDelete(bks, retentionCount)

---------------------------------------------------------------------------
(* SyncValidator *)

\* the concatenation of f[p] over the paths, in scan order
ConcatPaths(f) ==
    LET cat[i \in 0..Len(PathSeq)] ==
            IF i = 0 THEN <<>> ELSE cat[i - 1] \o f[PathSeq[i]]
    IN  cat[Len(PathSeq)]


\* validateLocalFiles, one scanned file whose hash can be computed: is a
\* local_newer conflict pushed
LocalNewer(fileState, file) ==
    /\ fileState.tracked
    /\ calculateFileHash(file.content) # fileState.localHash
    /\ fileState.remoteMtime # 0
    /\ file.mtime > fileState.lastSyncTime

validateLocalFiles(states, loc, locked) ==
    ConcatPaths([p \in Paths |->
        IF loc[p].exists /\ p \notin locked /\ LocalNewer(states[p], loc[p])
        THEN <<Conflict(p, "local_newer")>> ELSE <<>>])

\* validateLocalFiles: a tracked file whose hash cannot be computed is a warning
localReadIssues(states, loc, locked) ==
    ConcatPaths([p \in Paths |->
        IF loc[p].exists /\ states[p].tracked /\ p \in locked
        THEN <<Issue("warning", "FILE_READ_ERROR")>> ELSE <<>>])

\* validateRemoteFiles, one listed file: the conflict type pushed, "none" if none
RemoteConflictType(fileState, file, remoteFile) ==
    IF ~fileState.tracked THEN "none"
    ELSE IF ~(remoteFile.updatedAt > fileState.lastSyncTime) THEN "none"
    ELSE IF ~file.exists THEN "local_deleted"
    ELSE IF file.mtime > fileState.lastSyncTime THEN "both_modified"
    ELSE "remote_newer"

validateRemoteFiles(states, loc, rem) ==
    ConcatPaths([p \in Paths |->
        IF rem[p].exists /\ RemoteConflictType(states[p], loc[p], rem[p]) # "none"
        THEN <<Conflict(p, RemoteConflictType(states[p], loc[p], rem[p]))>>
        ELSE <<>>])

\* detectConflicts: a state entry whose local file is gone and whose path is listed
detectConflicts(states, loc, rem) ==
    ConcatPaths([p \in Paths |->
        IF states[p].tracked /\ ~loc[p].exists /\ rem[p].exists
        THEN <<Conflict(p, "local_deleted")>> ELSE <<>>])

\* the checks of the environment and the two scans, with the failure injected
ValidationFailures == {"none", "env", "localScan", "remoteScan"}

validateIssues(direction, states, loc, vfail, locked) ==
    (IF vfail = "env" THEN <<Issue("error", "NETWORK_ERROR")>> ELSE <<>>)
    \o (IF direction \in {"upload", "both"}
        THEN IF vfail = "localScan" THEN <<Issue("error", "LOCAL_SCAN_ERROR")>>
             ELSE localReadIssues(states, loc, locked)
        ELSE <<>>)
    \o (IF direction \in {"download", "both"} /\ vfail = "remoteScan"
        THEN <<Issue("error", "REMOTE_SCAN_ERROR")>> ELSE <<>>)

validateConflicts(direction, states, loc, rem, vfail, locked) ==
    (IF direction \in {"upload", "both"} /\ vfail # "localScan"
        THEN validateLocalFiles(states, loc, locked) ELSE <<>>)
    \o (IF direction \in {"download", "both"} /\ vfail # "remoteScan"
        THEN validateRemoteFiles(states, loc, rem) ELSE <<>>)
    \o (IF direction = "both" THEN detectConflicts(states, loc, rem) ELSE <<>>)

HasErrors(issues) == \E i \in 1..Len(issues) : issues[i].type = "error"

\* a validator for which only errors count
canProceedWithoutCeiling(issues, conflicts, allowForce) == ~HasErrors(issues)

canProceed(issues, conflicts, allowForce) ==
    /\ ~HasErrors(issues)
    /\ (~(Len(conflicts) > MaxConflictCount) \/ allowForce)

validate(direction, states, loc, rem, allowForce, vfail, locked) ==
    LET issues == validateIssues(direction, states, loc, vfail, locked)
        conflicts == validateConflicts(direction, states, loc, rem, vfail, locked)
    IN  [issues |-> issues, conflicts |-> conflicts,
         canProceed |-> canProceed(issues, conflicts, allowForce)]

---------------------------------------------------------------------------
(* SafeSync: planning and conflict handling *)

Operation(type, p, reason, backupRequired) ==
    [type |-> type, filePath |-> p, reason |-> reason, backupRequired |-> backupRequired]

\* a planner that trusts the modification time instead of the hash
PlanUploadByMtime(p, fileState, file, canRead) ==
    IF ~canRead THEN <<>>
    ELSE IF ~fileState.tracked
        THEN <<Operation("upload", p, "New local file", FALSE)>>
    ELSE IF file.mtime # fileState.localMtime
        THEN <<Operation("upload", p, "Local file modified", TRUE)>>
    ELSE <<>>

\* planUploadOperations, one scanned file
PlanUpload(p, fileState, file, canRead) ==
    IF ~canRead THEN <<>>
    ELSE IF ~fileState.tracked
        THEN <<Operation("upload", p, "New local file", FALSE)>>
    ELSE IF calculateFileHash(file.content) # fileState.localHash
        THEN <<Operation("upload", p, "Local file modified", TRUE)>>
    ELSE <<>>

\* a planner that answers a vanished local file with a remote deletion
planUploadOperationsAndDeletes(states, loc, locked) ==
    ConcatPaths([p \in Paths |->
        IF loc[p].exists
        THEN PlanUpload(p, states[p], loc[p], p \notin locked)
        ELSE IF states[p].tracked
            THEN <<Operation("delete_remote", p, "Local file deleted", TRUE)>>
        ELSE <<>>])

planUploadOperations(states, loc, locked) ==
    ConcatPaths([p \in Paths |->
        IF loc[p].exists
        THEN PlanUpload(p, states[p], loc[p], p \notin locked) ELSE <<>>])

\* a planner that compares the remote time with the time of the sync inclusively
PlanDownloadInclusive(p, fileState, file, remoteFile) ==
    IF ~fileState.tracked
        THEN <<Operation("download", p, "New remote file", FALSE)>>
    ELSE IF remoteFile.updatedAt >= fileState.lastSyncTime
        THEN <<Operation("download", p, "Remote file modified", file.exists)>>
    ELSE <<>>

\* a planner that passes over a listed file it has no entry for
PlanDownloadTrackedOnly(p, fileState, file, remoteFile) ==
    IF ~fileState.tracked THEN <<>>
    ELSE IF remoteFile.updatedAt > fileState.lastSyncTime
        THEN <<Operation("download", p, "Remote file modified", file.exists)>>
    ELSE <<>>

\* planDownloadOperations, one listed file
PlanDownload(p, fileState, file, remoteFile) ==
    IF ~fileState.tracked
        THEN <<Operation("download", p, "New remote file", FALSE)>>
    ELSE IF remoteFile.updatedAt > fileState.lastSyncTime
        THEN <<Operation("download", p, "Remote file modified", file.exists)>>
    ELSE <<>>

planDownloadOperations(states, loc, rem) ==
    ConcatPaths([p \in Paths |->
        IF rem[p].exists THEN PlanDownload(p, states[p], loc[p], rem[p]) ELSE <<>>])

\* a planner that plans both directions whatever the option says
planOperationsBothWays(direction, states, loc, rem, locked) ==
    planUploadOperations(states, loc, locked) \o planDownloadOperations(states, loc, rem)

planOperations(direction, states, loc, rem, locked) ==
    (IF direction \in {"upload", "both"}
        THEN planUploadOperations(states, loc, locked) ELSE <<>>)
    \o (IF direction \in {"download", "both"}
        THEN planDownloadOperations(states, loc, rem) ELSE <<>>)

\* reason += ' (conflict - backup created)'
Appended(reason) ==
    IF reason = "New local file" THEN "New local file (conflict - backup created)"
    ELSE "Local file modified (conflict - backup created)"

\* a handler that applies no policy
ResolveOneKeepsAll(ops, conflict, resolution) == ops

\* a handler that drops every operation on a conflicted path
ResolveOneDropsPath(ops, conflict, resolution) ==
    LET NotOnPath(op) == op.filePath # conflict.filePath
    IN  SelectSeq(ops, NotOnPath)

\* handleConflicts, one conflict: the operations kept
ResolveOne(ops, conflict, resolution) ==
    LET p == conflict.filePath
        NotOnPath(op) == op.filePath # p
        NotDownload(op) == ~(op.type = "download" /\ op.filePath = p)
        NotUpload(op) == ~(op.type = "upload" /\ op.filePath = p)
        \* find(): the first upload of the path gets backupRequired
        first == {i \in 1..Len(ops) : ops[i].type = "upload" /\ ops[i].filePath = p}
        Marked(i) == [ops[i] EXCEPT !.backupRequired = TRUE,
                                    !.reason = Appended(ops[i].reason)]
    IN  CASE resolution = "skip" -> SelectSeq(ops, NotOnPath)
          [] resolution = "local_wins" -> SelectSeq(ops, NotDownload)
          [] resolution = "remote_wins" -> SelectSeq(ops, NotUpload)
          [] resolution = "backup_and_merge" ->
                [i \in 1..Len(ops) |->
                    IF first # {} /\ \A j \in first : i <= j /\ i \in first
                    THEN Marked(i) ELSE ops[i]]
          [] OTHER -> SelectSeq(ops, NotOnPath)

\* a handler that skips under "ask" without telling
ResolveWarningSilentAsk(conflict, resolution) ==
    CASE resolution = "skip" -> <<<<"Skipped conflicted file", conflict.filePath>>>>
      [] OTHER -> <<>>

\* the warning handleConflicts records for one conflict, if any
ResolveWarning(conflict, resolution) ==
    CASE resolution = "skip" -> <<<<"Skipped conflicted file", conflict.filePath>>>>
      [] resolution \in {"local_wins", "remote_wins", "backup_and_merge"} -> <<>>
      [] OTHER -> <<<<"Skipped conflicted file (interactive resolution not implemented)",
                     conflict.filePath>>>>

handleConflicts(conflicts, res, resolution) ==
    LET step[i \in 0..Len(conflicts)] ==
            IF i = 0 THEN res
            ELSE [step[i - 1] EXCEPT
                    !.operations = ResolveOne(@, conflicts[i], resolution),
                    !.warnings = @ \o ResolveWarning(conflicts[i], resolution),
                    !.conflictsResolved = @ + 1]
    IN  step[Len(conflicts)]

---------------------------------------------------------------------------
(* BackupManager *)

\* generateBackupId: an id no entry and no backup file has
generateBackupId(bks, files) ==
    LET used == {b.backupId : b \in bks} \cup {f.backupId : f \in files}
    IN  IF used = {} THEN 1
        ELSE 1 + CHOOSE m \in used : \A u \in used : u <= m

\* a manager that makes backups whatever its options say
BackupsNeverOff(enabled) == FALSE

\* createBackup: if (!this.options.enabled) return { success: true }
BackupsOff(enabled) == ~enabled

\* createBackup(originalPath, reason): the result, and the backup files, the
\* entries in memory and the store file it leaves.  fault: "copy", the copy
\* fails; "save", the write of the store file fails once the entry is set.
createBackup(p, reason, enabled, file, canRead, bks, files, states, store, now, fault) ==
    LET same == [success |-> TRUE, created |-> FALSE, backups |-> bks,
                 backupFiles |-> files, storeFile |-> store]
        id == generateBackupId(bks, files)
        entry == [backupId |-> id, originalPath |-> p, createdAt |-> now,
                  fileHash |-> calculateFileHash(file.content), reason |-> reason]
        kept == cleanupOldBackups(bks \cup {entry}, RetentionCount)
    IN  IF BackupsOff(enabled) THEN same
        ELSE IF ~file.exists \/ ~canRead \/ fault = "copy"
            THEN [same EXCEPT !.success = FALSE]
        ELSE IF fault = "save"
            THEN [same EXCEPT !.success = FALSE,
                              !.backups = bks \cup {entry},
                              !.backupFiles = files \cup
                                    {[backupId |-> id, content |-> file.content]}]
        ELSE [success |-> TRUE, created |-> TRUE, backups |-> kept,
              backupFiles |->
                {f \in files \cup {[backupId |-> id, content |-> file.content]} :
                    \A d \in (bks \cup {entry}) \ kept : d.backupId # f.backupId},
              storeFile |-> save(states, kept)]

---------------------------------------------------------------------------
(* SafeSync: execution *)

FailPoints == {"none", "backup", "backupSave", "remote", "afterRemote", "localWrite",
               "afterWrite", "stateWrite"}

\* executeUpload: ok, and the remote file, the entries in memory and the store
\* file it leaves
executeUpload(p, file, canRead, remoteFile, states, bks, store, now, fail) ==
    LET same == [ok |-> FALSE, remoteFile |-> remoteFile, states |-> states,
                 storeFile |-> store]
        uploadedFile == [exists |-> TRUE, content |-> file.content, updatedAt |-> now]
        syncState == [tracked |-> TRUE,
                      localHash |-> calculateFileHash(file.content),
                      remoteHash |-> calculateFileHash(file.content),
                      localMtime |-> file.mtime,
                      remoteMtime |-> uploadedFile.updatedAt,
                      lastSyncTime |-> now,
                      syncDirection |-> "upload",
                      isDeleted |-> FALSE]
        saved == [states EXCEPT ![p] = syncState]
    IN  IF ~file.exists \/ ~canRead \/ fail = "remote" THEN same
        ELSE IF fail = "afterRemote" THEN [same EXCEPT !.remoteFile = uploadedFile]
        ELSE IF fail = "stateWrite"
            THEN [same EXCEPT !.remoteFile = uploadedFile, !.states = saved]
        ELSE [ok |-> TRUE, remoteFile |-> uploadedFile, states |-> saved,
              storeFile |-> save(saved, bks)]

\* executeDownload: ok, and the local file, the entries in memory and the store
\* file it leaves
executeDownload(p, file, canWrite, remoteFile, states, bks, store, now, fail) ==
    LET same == [ok |-> FALSE, file |-> file, states |-> states, storeFile |-> store]
        written == [exists |-> TRUE, content |-> remoteFile.content, mtime |-> now]
        syncState == [tracked |-> TRUE,
                      localHash |-> calculateFileHash(written.content),
                      remoteHash |-> calculateFileHash(written.content),
                      localMtime |-> written.mtime,
                      remoteMtime |-> remoteFile.updatedAt,
                      lastSyncTime |-> now,
                      syncDirection |-> "download",
                      isDeleted |-> FALSE]
        saved == [states EXCEPT ![p] = syncState]
    IN  IF fail = "remote" \/ ~remoteFile.exists THEN same
        ELSE IF fail = "localWrite" \/ ~canWrite THEN same
        ELSE IF fail = "afterWrite" THEN [same EXCEPT !.file = written]
        ELSE IF fail = "stateWrite"
            THEN [same EXCEPT !.file = written, !.states = saved]
        ELSE [ok |-> TRUE, file |-> written, states |-> saved,
              storeFile |-> save(saved, bks)]

\* a loop that records the error of a failed operation and forgets the operation
OutcomeWithoutSkipped(res, op, ok) ==
    IF ok
    THEN [res EXCEPT !.executedOperations = Append(@, op),
                     !.filesUploaded = @ + (IF op.type = "upload" THEN 1 ELSE 0),
                     !.filesDownloaded = @ + (IF op.type = "download" THEN 1 ELSE 0)]
    ELSE [res EXCEPT !.errors = Append(@, <<"Failed to execute", op.type, op.filePath>>)]

\* executeOperations, the end of one iteration: the operation joins
\* executedOperations, or the catch records the error and the skipped operation
Outcome(res, op, ok) ==
    IF ok
    THEN [res EXCEPT !.executedOperations = Append(@, op),
                     !.filesUploaded = @ + (IF op.type = "upload" THEN 1 ELSE 0),
                     !.filesDownloaded = @ + (IF op.type = "download" THEN 1 ELSE 0)]
    ELSE [res EXCEPT !.errors = Append(@, <<"Failed to execute", op.type, op.filePath>>),
                     !.skippedOperations = Append(@, op)]

\* executeOperations, one iteration of the loop: the backup when required, the
\* operation, and the result's bookkeeping
ExecuteOne(op, fail) ==
    LET p == op.filePath
        b == IF op.backupRequired
             THEN createBackup(p, "sync", options.backupEnabled, local[p],
                               p \notin unreadable, backups, backupFiles,
                               syncStates, storeFile, clock,
                               CASE fail = "backup" -> "copy"
                                 [] fail = "backupSave" -> "save"
                                 [] OTHER -> "none")
             ELSE [success |-> TRUE, created |-> FALSE, backups |-> backups,
                   backupFiles |-> backupFiles, storeFile |-> storeFile]
        up == executeUpload(p, local[p], p \notin unreadable, remote[p], syncStates,
                            b.backups, b.storeFile, clock, fail)
        down == executeDownload(p, local[p], p \notin unreadable, remote[p],
                                syncStates, b.backups, b.storeFile, clock, fail)
        ok == IF op.type = "upload" THEN up.ok ELSE down.ok
        r1 == IF ~op.backupRequired THEN result
              ELSE IF b.success THEN [result EXCEPT !.backupsCreated = @ + 1]
              ELSE [result EXCEPT !.warnings =
                        Append(@, <<"Failed to create backup for", p>>)]
        r2 == Outcome(r1, op, ok)
    IN  /\ backups' = b.backups
        /\ backupFiles' = b.backupFiles
        /\ remote' = IF op.type = "upload"
                     THEN [remote EXCEPT ![p] = up.remoteFile] ELSE remote
        /\ local' = IF op.type = "download"
                    THEN [local EXCEPT ![p] = down.file] ELSE local
        /\ syncStates' = IF op.type = "upload" THEN up.states ELSE down.states
        /\ storeFile' = IF op.type = "upload" THEN up.storeFile ELSE down.storeFile
        /\ result' = IF opIndex = Len(result.operations)
                     THEN [r2 EXCEPT !.success = (r2.errors = <<>>)] ELSE r2

\* can the failure be injected into this operation
Injectable(op, fail) ==
    CASE fail = "none" -> TRUE
      [] fail \in {"backup", "backupSave"} ->
            /\ op.backupRequired /\ options.backupEnabled
            /\ local[op.filePath].exists /\ op.filePath \notin unreadable
      [] fail \in {"remote", "stateWrite"} -> TRUE
      [] fail = "afterRemote" -> op.type = "upload"
      [] fail \in {"localWrite", "afterWrite"} -> op.type = "download"

Inject(fail) ==
    /\ fail # "none" => failures < MaxFailures
    /\ failures' = IF fail = "none" THEN failures ELSE failures + 1

---------------------------------------------------------------------------
(* SafeSync.sync() *)

\* result.success = result.errors.length === 0
Finished(res) == [res EXCEPT !.success = (res.errors = <<>>)]

\* the messages sync() copies from the validation issues
IssueMessages(issues, type) ==
    LET Is(i) == i.type = type
        picked == SelectSeq(issues, Is)
    IN  [i \in 1..Len(picked) |-> <<"issue", picked[i].code>>]

\* a gate that lets every validation result through
ValidationBlocksNever(proceed, force) == FALSE

\* the validation gate: !validationResult.canProceed && !this.options.force
ValidationBlocks(proceed, force) == ~proceed /\ ~force

\* the instance is gone: the process ended or the caller dropped it
Discard ==
    /\ syncStates' = EmptyStates
    /\ backups' = {}
    /\ initialized' = FALSE
    /\ result' = InitialResult
    /\ opIndex' = 1
    /\ unreadable' = {}
    /\ pc' = "idle"

\* sync(), up to the validation gate: initialize the store, validate
Begin ==
    /\ pc = "idle"
    /\ runs < MaxRuns
    /\ runs' = runs + 1
    /\ \E fail \in {"init", "read"} \cup ValidationFailures, u \in Paths :
        /\ Inject(fail)
        /\ fail \in {"env", "localScan", "remoteScan"} => options.validationEnabled
        /\ fail = "localScan" => options.direction \in {"upload", "both"}
        /\ fail = "remoteScan" => options.direction \in {"download", "both"}
        /\ IF fail = "read" THEN local[u].exists ELSE u = PathSeq[1]
        /\ unreadable' = IF fail = "read" THEN {u} ELSE {}
        /\ opIndex' = 1
        /\ IF fail = "init"
           THEN /\ initialized' = FALSE
                /\ UNCHANGED <<syncStates, backups>>
                /\ result' = [InitialResult EXCEPT !.dryRun = options.dryRun,
                                                   !.errors = <<<<"Sync failed">>>>]
                /\ pc' = "closing"
           ELSE LET states == LoadStates(storeFile)
                    v == validate(options.direction, states, local, remote,
                                  options.force, fail,
                                  IF fail = "read" THEN {u} ELSE {})
                    r == [InitialResult EXCEPT !.dryRun = options.dryRun]
                    rv == [r EXCEPT !.validated = TRUE,
                                    !.canProceed = v.canProceed,
                                    !.conflicts = v.conflicts]
                IN  /\ initialized' = TRUE
                    /\ syncStates' = states
                    /\ backups' = LoadBackups(storeFile)
                    /\ IF ~options.validationEnabled
                       THEN result' = r /\ pc' = "plan"
                       ELSE IF ValidationBlocks(v.canProceed, options.force)
                       THEN /\ result' = [rv EXCEPT !.errors = <<<<"Validation failed">>>>]
                            /\ pc' = "closing"
                       ELSE /\ result' =
                                [rv EXCEPT !.errors = IssueMessages(v.issues, "error"),
                                           !.warnings = IssueMessages(v.issues, "warning")]
                            /\ pc' = "plan"
    /\ UNCHANGED <<world, options, lastRun, clock, calls>>

\* another client changes the remote project after validation has listed it and
\* before planning lists it again
RemoteChangesDuringRun ==
    /\ pc = "plan"
    /\ result.validated
    /\ Inject("race")
    /\ clock' = clock + 1
    /\ lastRun' = NoRun
    /\ pc' = "overtaken"
    /\ \E p \in Paths :
        \/ /\ remote[p].exists
           /\ remote' = [remote EXCEPT ![p] = NoRemote]
        \/ \E c \in Contents :
            /\ remote[p].content # c
            /\ remote' = [remote EXCEPT ![p] =
                    [exists |-> TRUE, content |-> c, updatedAt |-> clock']]
    /\ UNCHANGED <<local, storeFile, backupFiles, syncStates, backups, initialized,
                   options, result, opIndex, unreadable, runs, calls>>

\* planOperations; a scan or a listing that throws ends the run in sync()'s catch
Plan ==
    /\ pc \in {"plan", "overtaken"}
    /\ \E fail \in {"none", "local", "remote"} :
        /\ Inject(fail)
        /\ fail = "local" => options.direction \in {"upload", "both"}
        /\ fail = "remote" => options.direction \in {"download", "both"}
        /\ IF fail = "none"
           THEN LET ops == planOperations(options.direction, syncStates, local, remote,
                                          unreadable)
                IN  /\ result' = [result EXCEPT !.operations = ops,
                                                !.totalOperations = Len(ops)]
                    /\ pc' = "planned"
           ELSE /\ result' = [result EXCEPT !.errors = Append(@, <<"Sync failed">>)]
                /\ pc' = "closing"
    /\ UNCHANGED <<world, syncStates, backups, initialized, options, opIndex,
                   unreadable, lastRun, clock, runs, calls>>

\* a gate that takes a dry run for a real one
ExecutionSkippedWhenEmpty(dryRun, ops) == Len(ops) = 0

\* if (!this.options.dryRun) executeOperations: nothing is executed in a dry
\* run, and the loop over an empty plan has no iteration
ExecutionSkipped(dryRun, ops) == dryRun \/ Len(ops) = 0

\* handleConflicts, then the dry-run gate
Resolve ==
    /\ pc = "planned"
    /\ LET r == IF result.validated /\ Len(result.conflicts) > 0
                THEN handleConflicts(result.conflicts, result,
                                     options.conflictResolution)
                ELSE result
       IN  IF ExecutionSkipped(options.dryRun, r.operations)
           THEN result' = Finished(r) /\ pc' = "closing"
           ELSE result' = r /\ pc' = "exec"
    /\ UNCHANGED <<world, syncStates, backups, initialized, options, opIndex,
                   unreadable, lastRun, clock, runs, failures, calls>>

\* executeOperations: the next operation of the plan
Execute ==
    /\ pc = "exec"
    /\ \E fail \in FailPoints :
        /\ Injectable(result.operations[opIndex], fail)
        /\ Inject(fail)
        /\ ExecuteOne(result.operations[opIndex], fail)
    /\ opIndex' = opIndex + 1
    /\ pc' = IF opIndex = Len(result.operations) THEN "closing" ELSE "exec"
    /\ UNCHANGED <<initialized, options, unreadable, lastRun, clock, runs, calls>>

\* finally: database.close(), which saves when the store was initialized
Close ==
    /\ pc = "closing"
    /\ \E fail \in {"none", "close"} :
        /\ Inject(fail)
        /\ fail = "close" => initialized
        /\ IF fail = "close" THEN pc' = "rejected" /\ UNCHANGED storeFile
           ELSE /\ pc' = "done"
                /\ storeFile' = IF initialized THEN save(syncStates, backups)
                                ELSE storeFile
    /\ UNCHANGED <<local, remote, backupFiles, syncStates, backups, initialized,
                   options, result, opIndex, unreadable, lastRun, clock, runs, calls>>

\* the caller takes the result (or the rejection)
Return ==
    /\ pc \in {"done", "rejected"}
    /\ lastRun' = [kind |-> pc, dryRun |-> options.dryRun,
                   clean |-> result.success /\ pc = "done", unreadable |-> unreadable]
    /\ Discard
    /\ UNCHANGED <<world, options, clock, runs, failures, calls>>

\* the process is terminated during the run
Crash ==
    /\ pc \in {"plan", "overtaken", "planned", "exec", "closing"}
    /\ Inject("crash")
    /\ lastRun' = [kind |-> "crashed", dryRun |-> options.dryRun, clean |-> FALSE,
                   unreadable |-> unreadable]
    /\ Discard
    /\ UNCHANGED <<world, options, clock, runs, calls>>

Next ==
    \/ LocalWrite
    \/ LocalTouch
    \/ LocalDelete
    \/ RemoteWrite
    \/ RemoteDelete
    \/ StoreLost
    \/ Begin
    \/ RemoteChangesDuringRun
    \/ Plan
    \/ Resolve
    \/ Execute
    \/ Close
    \/ Return
    \/ Crash

Spec == Init /\ [][Next]_vars

---------------------------------------------------------------------------
(* SyncValidator.validate on its own: what the checks found, and the answer *)

\* nothing exists yet and no sync() runs
Quiet ==
    /\ local = [p \in Paths |-> NoLocal]
    /\ remote = [p \in Paths |-> NoRemote]
    /\ storeFile = NoStore
    /\ backupFiles = {}
    /\ syncStates = EmptyStates
    /\ backups = {}
    /\ initialized = FALSE
    /\ options = DefaultOptions
    /\ result = InitialResult
    /\ pc = "idle"
    /\ opIndex = 1
    /\ unreadable = {}
    /\ lastRun = NoRun
    /\ clock = 0
    /\ runs = 0
    /\ failures = 0

Severities == {"error", "warning", "info"}

\* the issues the checks may have pushed
IssueLists ==
    UNION {[1..n -> {Issue(t, "CHECK") : t \in Severities}] : n \in 0..MaxIssues}

\* the conflicts the scans may have pushed
ConflictLists ==
    {[i \in 1..n |-> Conflict(PathSeq[1], "both_modified")] :
        n \in 0..(MaxConflictCount + MaxExcess)}

InitValidate ==
    /\ Quiet
    /\ validation \in [issues : IssueLists, conflicts : ConflictLists,
                       allowForce : BOOLEAN, returned : {FALSE},
                       canProceed : {FALSE}]
    /\ bm = NoBackupCall
    /\ rs = NoRestore
    /\ tempFile = NoTemp
    /\ saving = "no"
    /\ NoOthers

\* validate(): hasErrors, tooManyConflicts, canProceed
ValidateReturns ==
    /\ ~validation.returned
    /\ validation' = [validation EXCEPT
            !.returned = TRUE,
            !.canProceed = canProceed(validation.issues, validation.conflicts,
                                      validation.allowForce)]
    /\ UNCHANGED <<world, engine, lastRun, clock, runs, failures, bm, rs, tempFile,
                   saving, legacy, mock, tracker, upload>>

NextValidate == ValidateReturns

ValidateSpec == InitValidate /\ [][NextValidate]_vars

---------------------------------------------------------------------------
(* BackupManager.createBackup and restoreFromBackup on their own, step by   *)
(* step, while the user edits the files                                     *)

\* backup.retentionCount of the BackupManager
Retentions == {1, 2}

InitBackup ==
    /\ Quiet
    /\ validation = NoValidation
    /\ \E n \in Retentions : bm = [NoBackupCall EXCEPT !.retentionCount = n]
    /\ rs = NoRestore
    /\ tempFile = NoTemp
    /\ saving = "no"
    /\ NoOthers

\* what no backup or restore step touches
besideBackup == <<remote, syncStates, initialized, options, result, pc, opIndex,
                  unreadable, lastRun, runs, validation, tempFile, saving, legacy,
                  mock, tracker, upload>>

\* the user writes a file
SourceWrite ==
    /\ clock < MaxTime
    /\ clock' = clock + 1
    /\ \E p \in Paths, c \in Contents :
        /\ local[p].content # c
        /\ local' = [local EXCEPT ![p] =
                [exists |-> TRUE, content |-> c, mtime |-> clock']]
    /\ UNCHANGED <<storeFile, backupFiles, backups, failures, bm, rs, besideBackup>>

\* createBackup: stat, the backup id, the hash of the original
BackupStart ==
    /\ bm.pc = "idle"
    /\ bm.started < MaxBackups
    /\ \E p \in Paths :
        bm' = IF ~local[p].exists
              THEN [bm EXCEPT !.started = @ + 1, !.originalPath = p,
                              !.success = "no", !.error = "stat"]
              ELSE [bm EXCEPT !.started = @ + 1, !.pc = "hashed",
                              !.originalPath = p,
                              !.backupId = generateBackupId(backups, backupFiles),
                              !.fileHash = calculateFileHash(local[p].content),
                              !.success = "none", !.error = "none"]
    /\ UNCHANGED <<local, storeFile, backupFiles, backups, clock, failures, rs,
                   besideBackup>>

\* createBackup: fs.copyFile(originalPath, backupPath)
BackupCopy ==
    /\ bm.pc = "hashed"
    /\ \E fail \in {"none", "copy"} :
        /\ Inject(fail)
        /\ IF fail = "copy" \/ ~local[bm.originalPath].exists
           THEN /\ bm' = [bm EXCEPT !.pc = "idle", !.success = "no", !.error = "copy"]
                /\ UNCHANGED backupFiles
           ELSE /\ bm' = [bm EXCEPT !.pc = "copied"]
                /\ backupFiles' = backupFiles \cup
                        {[backupId |-> bm.backupId,
                          content |-> local[bm.originalPath].content]}
    /\ UNCHANGED <<local, storeFile, backups, clock, rs, besideBackup>>

\* a check that accepts every copy
VerifiedAlways(fileHash, copy) == TRUE

\* createBackup: fileHash === backupHash
Verified(fileHash, copy) == fileHash = calculateFileHash(copy.content)

\* a rejection that leaves the copy behind
RejectedKeepsCopy(files, id) == files

\* createBackup: the rejected copy is unlinked
Rejected(files, id) == {f \in files : f.backupId # id}

\* createBackup: the copy is re-hashed; rejected, or recorded (the entry is set
\* in memory, then saved) and followed by the cleanup.  A save that fails
\* throws: the entry stays in memory and the call returns the error.
BackupVerify ==
    /\ bm.pc = "copied"
    /\ \E fail \in {"none", "save"} :
        LET copy == CHOOSE f \in backupFiles : f.backupId = bm.backupId
            entry == [backupId |-> bm.backupId, originalPath |-> bm.originalPath,
                      createdAt |-> clock, fileHash |-> bm.fileHash, reason |-> "sync"]
            kept == cleanupOldBackups(backups \cup {entry}, bm.retentionCount)
        IN  IF ~Verified(bm.fileHash, copy)
            THEN /\ fail = "none"
                 /\ bm' = [bm EXCEPT !.pc = "idle", !.success = "no",
                                     !.error = "integrity"]
                 /\ backupFiles' = Rejected(backupFiles, bm.backupId)
                 /\ UNCHANGED <<backups, storeFile, failures>>
            ELSE /\ Inject(fail)
                 /\ IF fail = "save"
                    THEN /\ bm' = [bm EXCEPT !.pc = "idle", !.success = "no",
                                             !.error = "save"]
                         /\ backups' = backups \cup {entry}
                         /\ UNCHANGED <<backupFiles, storeFile>>
                    ELSE /\ bm' = [bm EXCEPT !.pc = "idle", !.success = "yes",
                                             !.succeeded[bm.originalPath] = @ + 1]
                         /\ backups' = kept
                         /\ backupFiles' =
                                {f \in backupFiles :
                                    \A d \in (backups \cup {entry}) \ kept :
                                        d.backupId # f.backupId}
                         /\ storeFile' = save(syncStates, kept)
    /\ UNCHANGED <<local, clock, rs, besideBackup>>

\* restoreFromBackup: the entry is found and its file is there
RestoreCheck ==
    /\ rs.pc = "idle"
    /\ \E b \in backups :
        rs' = IF \E f \in backupFiles : f.backupId = b.backupId
              THEN [pc |-> "checked", backupId |-> b.backupId,
                    originalPath |-> b.originalPath, fileHash |-> b.fileHash,
                    success |-> "none"]
              ELSE [NoRestore EXCEPT !.backupId = b.backupId, !.success = "no"]
    /\ UNCHANGED <<local, storeFile, backupFiles, backups, clock, failures, bm,
                   besideBackup>>

\* a restore that does not look at what it restored
RestoreVerifiedAlways(fileHash, restored) == TRUE

\* restoreFromBackup: restoredHash === backup.fileHash
RestoreVerified(fileHash, restored) == calculateFileHash(restored.content) = fileHash

\* restoreFromBackup: the backup file is copied over the original and re-hashed
RestoreCopy ==
    /\ rs.pc = "checked"
    /\ IF \E f \in backupFiles : f.backupId = rs.backupId
       THEN LET f == CHOOSE f \in backupFiles : f.backupId = rs.backupId
            IN  /\ local' = [local EXCEPT ![rs.originalPath] =
                        [exists |-> TRUE, content |-> f.content, mtime |-> clock]]
                /\ rs' = [rs EXCEPT !.pc = "idle", !.success =
                        IF RestoreVerified(rs.fileHash, local'[rs.originalPath])
                        THEN "yes" ELSE "no"]
       ELSE /\ rs' = [rs EXCEPT !.pc = "idle", !.success = "no"]
            /\ UNCHANGED local
    /\ UNCHANGED <<storeFile, backupFiles, backups, clock, failures, bm, besideBackup>>

NextBackup ==
    \/ SourceWrite
    \/ BackupStart
    \/ BackupCopy
    \/ BackupVerify
    \/ RestoreCheck
    \/ RestoreCopy

BackupSpec == InitBackup /\ [][NextBackup]_vars

---------------------------------------------------------------------------
(* BackupManager.restoreFromBackup on its own, over any records and backup  *)
(* files: records without a file, files without a record, files whose       *)
(* content is not what was recorded                                         *)

BackupIds == 1..MaxBackupIds

\* the records the store can hold: at most one per id
RecordSets ==
    {bs \in SUBSET [backupId : BackupIds, originalPath : Paths, createdAt : {0},
                    fileHash : {calculateFileHash(c) : c \in Contents},
                    reason : {"sync"}] :
        \A b1, b2 \in bs : b1.backupId = b2.backupId => b1 = b2}

\* the backup files on disk: at most one per id
BackupFileSets ==
    {fs \in SUBSET [backupId : BackupIds, content : Contents] :
        \A f1, f2 \in fs : f1.backupId = f2.backupId => f1 = f2}

InitRestore ==
    /\ local \in [Paths -> {NoLocal} \cup
                    {[exists |-> TRUE, content |-> c, mtime |-> 0] : c \in Contents}]
    /\ remote = [p \in Paths |-> NoRemote]
    /\ backups \in RecordSets
    /\ backupFiles \in BackupFileSets
    /\ storeFile = save(EmptyStates, backups)
    /\ syncStates = EmptyStates
    /\ initialized = TRUE
    /\ options = DefaultOptions
    /\ result = InitialResult
    /\ pc = "idle"
    /\ opIndex = 1
    /\ unreadable = {}
    /\ lastRun = NoRun
    /\ clock = 1
    /\ runs = 0
    /\ failures = 0
    /\ NoCalls

\* restoreFromBackup: listBackups holds no record with the id
RestoreUnknown ==
    /\ rs.pc = "idle"
    /\ \E id \in BackupIds :
        /\ \A b \in backups : b.backupId # id
        /\ rs' = [NoRestore EXCEPT !.backupId = id, !.success = "no"]
    /\ UNCHANGED <<local, storeFile, backupFiles, backups, clock, failures, bm,
                   besideBackup>>

\* a backup file is removed from the backup directory
BackupFileLost ==
    /\ \E f \in backupFiles : backupFiles' = backupFiles \ {f}
    /\ UNCHANGED <<local, storeFile, backups, clock, failures, bm, rs, besideBackup>>

NextRestore ==
    \/ RestoreUnknown
    \/ RestoreCheck
    \/ RestoreCopy
    \/ BackupFileLost

RestoreSpec == InitRestore /\ [][NextRestore]_vars

---------------------------------------------------------------------------
(* The legacy sync, syncFiles(projectName, direction), step by step          *)

\* no SafeSync, no store and no backup is involved
NoEngine ==
    /\ storeFile = NoStore
    /\ backupFiles = {}
    /\ syncStates = EmptyStates
    /\ backups = {}
    /\ initialized = FALSE
    /\ options = DefaultOptions
    /\ result = InitialResult
    /\ pc = "idle"
    /\ opIndex = 1
    /\ unreadable = {}
    /\ lastRun = NoRun
    /\ clock = 1
    /\ runs = 0
    /\ failures = 0
    /\ validation = NoValidation
    /\ bm = NoBackupCall
    /\ rs = NoRestore
    /\ tempFile = NoTemp
    /\ saving = "no"

LocalFiles ==
    [Paths -> {NoLocal} \cup
              {[exists |-> TRUE, content |-> c, mtime |-> 0] : c \in Contents}]

RemoteFiles ==
    [Paths -> {NoRemote} \cup
              {[exists |-> TRUE, content |-> c, updatedAt |-> 0] : c \in Contents}]

InitLegacy ==
    /\ NoEngine
    /\ local \in LocalFiles
    /\ remote \in RemoteFiles
    /\ \E c \in BOOLEAN, d \in Directions :
        legacy = [NoLegacy EXCEPT !.configured = c, !.direction = d]
    /\ mock = NoMock
    /\ tracker = NoTracker
    /\ upload = NoUpload

\* what the legacy sync does not touch
besideLegacy == <<storeFile, backupFiles, syncStates, backups, initialized, options,
                  result, pc, opIndex, unreadable, lastRun, clock, runs,
                  validation, bm, rs, tempFile, saving, mock, tracker, upload>>

\* getAllFiles, and the files downloadFilesFromProject returns
Listed(files) ==
    ConcatPaths([p \in Paths |->
        IF files[p].exists THEN <<[path |-> p, content |-> files[p].content]>>
        ELSE <<>>])

\* a sync that downloads whatever the direction
AfterUploadsAlwaysDownload(direction) == "download"

\* syncFiles: what follows the upload phase
AfterUploads(direction) == IF direction = "both" THEN "download" ELSE "finish"

\* a sync that swallows the error and carries on
ThrownAndSwallowed(lg, error) == [lg EXCEPT !.error = error, !.next = @ + 1]

\* an error thrown in a phase is re-thrown up to the caller of syncFiles
Thrown(lg, error) == [lg EXCEPT !.pc = "done", !.outcome = "rejected", !.error = error]

Logged(lg, kind, path) == [lg EXCEPT !.log = Append(@, <<kind, path>>)]

\* syncFiles: getProjectConfig, and the listing of the first phase
LegacyStart ==
    /\ legacy.pc = "idle"
    /\ legacy.outcome = "none"
    /\ legacy' =
        IF ~legacy.configured THEN Thrown(legacy, "not found")
        ELSE IF legacy.direction \in {"upload", "both"}
            THEN [legacy EXCEPT !.pc = "upload", !.files = Listed(local), !.next = 1]
        ELSE [legacy EXCEPT !.pc = "download"]
    /\ UNCHANGED <<local, remote, failures, besideLegacy>>

\* uploadLocalFiles: the next file is read and uploaded, or the phase is over
LegacyUpload ==
    /\ legacy.pc = "upload"
    /\ IF legacy.next > Len(legacy.files)
       THEN /\ legacy' = [legacy EXCEPT !.pc = AfterUploads(legacy.direction)]
            /\ UNCHANGED <<remote, failures>>
       ELSE LET p == legacy.files[legacy.next].path
            IN  \E fail \in {"none", "read", "remote"} :
                    /\ Inject(fail)
                    /\ CASE fail = "read" ->
                              /\ legacy' = Thrown(legacy, "read")
                              /\ UNCHANGED remote
                         [] fail = "remote" ->
                              /\ legacy' = Thrown(Logged(legacy, "upload", p), "upload")
                              /\ UNCHANGED remote
                         [] OTHER ->
                              /\ legacy' = [Logged(legacy, "upload", p) EXCEPT
                                                !.next = @ + 1]
                              /\ remote' = [remote EXCEPT ![p] =
                                    [exists |-> TRUE, content |-> local[p].content,
                                     updatedAt |-> clock]]
    /\ UNCHANGED <<local, besideLegacy>>

\* downloadProjectFiles: downloadFilesFromProject
LegacyFetch ==
    /\ legacy.pc = "download"
    /\ \E fail \in {"none", "remote"} :
        /\ Inject(fail)
        /\ legacy' =
            IF fail = "remote" THEN Thrown(Logged(legacy, "download", ""), "download")
            ELSE [Logged(legacy, "download", "") EXCEPT
                        !.pc = "write", !.files = Listed(remote), !.next = 1]
    /\ UNCHANGED <<local, remote, besideLegacy>>

\* downloadProjectFiles: the next file is written, or the phase is over
LegacyWrite ==
    /\ legacy.pc = "write"
    /\ IF legacy.next > Len(legacy.files)
       THEN /\ legacy' = [legacy EXCEPT !.pc = "finish"]
            /\ UNCHANGED <<local, failures>>
       ELSE LET f == legacy.files[legacy.next]
            IN  \E fail \in {"none", "localWrite"} :
                    /\ Inject(fail)
                    /\ IF fail = "localWrite"
                       THEN /\ legacy' = Thrown(legacy, "write")
                            /\ UNCHANGED local
                       ELSE /\ legacy' = [Logged(legacy, "write", f.path) EXCEPT
                                                !.next = @ + 1]
                            /\ local' = [local EXCEPT ![f.path] =
                                    [exists |-> TRUE, content |-> f.content,
                                     mtime |-> clock]]
    /\ UNCHANGED <<remote, besideLegacy>>

\* syncFiles: updateLastSynced, and the promise resolves
LegacyFinish ==
    /\ legacy.pc = "finish"
    /\ legacy' = [Logged(legacy, "updateLastSynced", "") EXCEPT
                        !.pc = "done", !.outcome = "resolved"]
    /\ UNCHANGED <<local, remote, failures, besideLegacy>>

NextLegacy ==
    \/ LegacyStart
    \/ LegacyUpload
    \/ LegacyFetch
    \/ LegacyWrite
    \/ LegacyFinish

LegacySpec == InitLegacy /\ [][NextLegacy]_vars

---------------------------------------------------------------------------
(* MockClaudeClient: the knowledge files of one of its projects             *)

InitMock ==
    /\ NoEngine
    /\ local = [p \in Paths |-> NoLocal]
    /\ remote = [p \in Paths |-> NoRemote]
    /\ legacy = NoLegacy
    /\ mock = NoMock
    /\ tracker = NoTracker
    /\ upload = NoUpload

\* what the mock client does not touch
besideMock == <<world, engine, lastRun, clock, runs, failures, validation, bm, rs,
                tempFile, saving, legacy, tracker, upload>>

\* a client that keeps one file per path
StoredByPath(files, file) == {f \in files : f.path # file.path} \cup {file}

\* uploadKnowledgeFile: projectFiles.set(fileId, file)
Stored(files, file) == files \cup {file}

\* a call is made: known, whether the project id names a project of the client
Called(op, known, path, content, id, ok) ==
    [mock EXCEPT !.calls = @ + 1,
                 !.last = [op |-> op, known |-> known, path |-> path,
                           content |-> content, id |-> id, ok |-> ok]]

\* uploadKnowledgeFile(projectId, filePath, content)
MockUpload ==
    /\ mock.calls < MaxMockCalls
    /\ \E known \in BOOLEAN, p \in Paths, c \in Contents :
        LET id == mock.issued + 1
            file == [id |-> id, path |-> p, content |-> c]
        IN  mock' = IF ~known THEN Called("upload", known, p, c, 0, FALSE)
                    ELSE [Called("upload", known, p, c, id, TRUE) EXCEPT
                            !.files = Stored(mock.files, file),
                            !.live = @ \cup {file},
                            !.issued = id]
    /\ UNCHANGED besideMock

\* deleteKnowledgeFile(projectId, fileId)
MockDelete ==
    /\ mock.calls < MaxMockCalls
    /\ \E known \in BOOLEAN, id \in 1..(mock.issued + 1) :
        LET found == {f \in mock.files : f.id = id}
        IN  mock' = IF ~known \/ found = {} THEN Called("delete", known, "", 0, id, FALSE)
                    ELSE [Called("delete", known, "", 0, id, TRUE) EXCEPT
                            !.files = @ \ found,
                            !.live = {f \in @ : f.id # id}]
    /\ UNCHANGED besideMock

\* listKnowledgeFiles(projectId)
MockList ==
    /\ mock.calls < MaxMockCalls
    /\ \E known \in BOOLEAN :
        mock' = IF ~known THEN Called("list", known, "", 0, 0, FALSE)
                ELSE [Called("list", known, "", 0, 0, TRUE) EXCEPT
                        !.listed = mock.files]
    /\ UNCHANGED besideMock

NextMock ==
    \/ MockUpload
    \/ MockDelete
    \/ MockList

MockSpec == InitMock /\ [][NextMock]_vars

---------------------------------------------------------------------------
(* FileTracker: its handlers, markSynced, start and close                   *)

InitTracker ==
    /\ NoEngine
    /\ local = [p \in Paths |-> NoLocal]
    /\ remote = [p \in Paths |-> NoRemote]
    /\ legacy = NoLegacy
    /\ mock = NoMock
    /\ tracker = NoTracker
    /\ upload = NoUpload

\* what the tracker does not touch
besideTracker == <<world, engine, lastRun, clock, runs, failures, validation, bm,
                   rs, tempFile, saving, legacy, mock, upload>>

\* this.files without the entry of the path
Without(files, p) == {f \in files : f.path # p}

\* was the path marked as synced
Synced(files, p) == \E f \in files : f.path = p /\ f.lastSynced

\* what a call of the tracker returned
Returned(op, value) == [op |-> op, returned |-> value]

\* start(): if (this.isWatching) return true
AlreadyWatching(isWatching) == isWatching

\* start(): a watcher is created unless one is running; chokidar.watch may throw
TrackerStart ==
    /\ \E thrown \in BOOLEAN :
        tracker' =
            IF AlreadyWatching(tracker.isWatching)
            THEN [tracker EXCEPT !.last = Returned("start", "true")]
            ELSE IF thrown
            THEN [tracker EXCEPT !.emitted = <<"error", "">>,
                                 !.last = Returned("start", "false")]
            ELSE [tracker EXCEPT !.watcher = TRUE, !.isWatching = TRUE,
                                 !.created = @ + 1,
                                 !.last = Returned("start", "true")]
    /\ tracker'.created <= MaxWatchers
    /\ UNCHANGED besideTracker

handleFileAdd ==
    /\ \E p \in Paths :
        tracker' = [tracker EXCEPT
            !.files = Without(@, p) \cup {[path |-> p, lastSynced |-> FALSE]},
            !.latest[p] = "add",
            !.emitted = <<"add", p>>,
            !.last = Returned("handleFileAdd", "none")]
    /\ UNCHANGED besideTracker

handleFileChange ==
    /\ \E p \in Paths :
        tracker' = [tracker EXCEPT
            !.files = Without(@, p) \cup
                        {[path |-> p, lastSynced |-> Synced(tracker.files, p)]},
            !.latest[p] = "change",
            !.emitted = <<"change", p>>,
            !.last = Returned("handleFileChange", "none")]
    /\ UNCHANGED besideTracker

handleFileUnlink ==
    /\ \E p \in Paths :
        tracker' = [tracker EXCEPT
            !.files = Without(@, p),
            !.latest[p] = "unlink",
            !.emitted = <<"unlink", p>>,
            !.last = Returned("handleFileUnlink", "none")]
    /\ UNCHANGED besideTracker

\* add(filePath): false without a watcher
TrackerAdd ==
    /\ tracker' = [tracker EXCEPT
            !.last = Returned("add", IF tracker.watcher THEN "true" ELSE "false")]
    /\ UNCHANGED besideTracker

\* unwatch(filePath): false without a watcher
TrackerUnwatch ==
    /\ tracker' = [tracker EXCEPT
            !.last = Returned("unwatch", IF tracker.watcher THEN "true" ELSE "false")]
    /\ UNCHANGED besideTracker

markSynced ==
    /\ \E p \in Paths :
        tracker' = [tracker EXCEPT
            !.files = IF \E f \in tracker.files : f.path = p
                      THEN Without(@, p) \cup {[path |-> p, lastSynced |-> TRUE]}
                      ELSE @,
            !.last = Returned("markSynced", "none")]
    /\ UNCHANGED besideTracker

\* close(): without a watcher it returns true at once; with one it closes the
\* watcher and clears the files, or watcher.close() throws
TrackerClose ==
    /\ \E thrown \in BOOLEAN :
        tracker' =
            IF ~tracker.watcher
            THEN [tracker EXCEPT !.latest = NoTracker.latest,
                                 !.last = Returned("close", "true")]
            ELSE IF thrown
            THEN [tracker EXCEPT !.emitted = <<"error", "">>,
                                 !.latest = NoTracker.latest,
                                 !.last = Returned("close", "false")]
            ELSE [tracker EXCEPT !.watcher = FALSE, !.isWatching = FALSE,
                                 !.files = {}, !.latest = NoTracker.latest,
                                 !.last = Returned("close", "true")]
    /\ UNCHANGED besideTracker

NextTracker ==
    \/ TrackerStart
    \/ handleFileAdd
    \/ handleFileChange
    \/ handleFileUnlink
    \/ TrackerAdd
    \/ TrackerUnwatch
    \/ markSynced
    \/ TrackerClose

TrackerSpec == InitTracker /\ [][NextTracker]_vars

---------------------------------------------------------------------------
(* JsonSyncStateDatabase on its own: mutations, each followed by save(), and *)
(* a process that can stop at any point                                      *)

InitStore ==
    /\ Quiet
    /\ NoCalls

\* what the store does not touch
besideStore == <<local, remote, backupFiles, options, result, pc, opIndex,
                 unreadable, lastRun, clock, runs, failures, validation, bm, rs,
                 legacy, mock, tracker, upload>>

\* initialize(): the store file is read and parsed
Initialize ==
    /\ ~initialized
    /\ syncStates' = LoadStates(storeFile)
    /\ backups' = LoadBackups(storeFile)
    /\ initialized' = TRUE
    /\ UNCHANGED <<storeFile, tempFile, saving, besideStore>>

\* a save that writes the store file itself
BeginWriteInPlace(store, temp) ==
    [store |-> [store EXCEPT !.status = "partial"], temp |-> temp]

\* save(): fs.writeFile(tempPath, ...) is under way; what the two files hold
\* until it completes
BeginWrite(store, temp) ==
    [store |-> store, temp |-> [temp EXCEPT !.status = "partial"]]

\* a mutation: the maps are changed in memory and save() starts writing
Mutate(states, bks) ==
    /\ initialized
    /\ saving = "no"
    /\ syncStates' = states
    /\ backups' = bks
    /\ storeFile' = BeginWrite(storeFile, tempFile).store
    /\ tempFile' = BeginWrite(storeFile, tempFile).temp
    /\ saving' = "writing"
    /\ UNCHANGED <<initialized, besideStore>>

saveFileState ==
    \E p \in Paths, c \in Contents :
        LET h == calculateFileHash(c)
            entry == [NoEntry EXCEPT !.tracked = TRUE, !.localHash = h,
                                     !.remoteHash = h, !.syncDirection = "upload"]
        IN  /\ syncStates[p] # entry
            /\ Mutate([syncStates EXCEPT ![p] = entry], backups)

deleteFileState ==
    \E p \in Paths :
        /\ syncStates[p] # NoEntry
        /\ Mutate([syncStates EXCEPT ![p] = NoEntry], backups)

\* JsonSyncStateDatabase.createBackup(entry)
recordBackup ==
    /\ Cardinality(backups) < MaxBackups
    /\ \E p \in Paths :
        Mutate(syncStates, backups \cup
            {[backupId |-> generateBackupId(backups, {}), originalPath |-> p,
              createdAt |-> clock, fileHash |-> calculateFileHash(1),
              reason |-> "sync"]})

\* save(): the write of the temp file completes
WriteCompletes ==
    /\ saving = "writing"
    /\ tempFile' = save(syncStates, backups)
    /\ saving' = "written"
    /\ UNCHANGED <<syncStates, backups, storeFile, initialized, besideStore>>

\* save(): fs.writeFile(tempPath, ...) rejects (disk full, EACCES); save() and
\* the mutation that called it reject, the maps stay as the mutation left them
WriteFails ==
    /\ saving = "writing"
    /\ Inject("write")
    /\ saving' = "no"
    /\ UNCHANGED <<world, tempFile, engine, lastRun, clock, runs, validation, bm, rs,
                   legacy, mock, tracker, upload>>

\* save(): fs.rename(tempPath, dbPath)
RenameTemp ==
    /\ saving = "written"
    /\ storeFile' = tempFile
    /\ tempFile' = NoTemp
    /\ saving' = "no"
    /\ UNCHANGED <<syncStates, backups, initialized, besideStore>>

\* the process stops: the memory is lost, the files stay as they are
ProcessStops ==
    /\ initialized
    /\ syncStates' = EmptyStates
    /\ backups' = {}
    /\ initialized' = FALSE
    /\ saving' = "no"
    /\ UNCHANGED <<storeFile, tempFile, besideStore>>

NextStore ==
    \/ Initialize
    \/ saveFileState
    \/ deleteFileState
    \/ recordBackup
    \/ WriteCompletes
    \/ WriteFails
    \/ RenameTemp
    \/ ProcessStops

StoreSpec == InitStore /\ [][NextStore]_vars

---------------------------------------------------------------------------
(* Properties *)

HasOp(ops, type, p) == \E i \in 1..Len(ops) : ops[i].type = type /\ ops[i].filePath = p

HasConflict(conflicts, p, type) ==
    \E i \in 1..Len(conflicts) :
        conflicts[i].filePath = p /\ conflicts[i].conflictType = type

\* the operation executeOperations is about to process
Current == result.operations[opIndex]

\* the step performs the current operation: it changes the remote or the local
\* file, or adds the operation to executedOperations
Performed ==
    \/ remote' # remote
    \/ local' # local
    \/ Len(result'.executedOperations) > Len(result.executedOperations)

\* C1: with backups enabled, an operation flagged backupRequired is performed
\* only in a step in which createBackup returned success (backupsCreated is
\* counted); after a failed backup it is neither performed nor added to
\* executedOperations.
C1_NoOperationWithoutBackup ==
    [][(pc = "exec" /\ options.backupEnabled /\ Current.backupRequired /\ Performed)
        => result'.backupsCreated = result.backupsCreated + 1]_vars

\* C2: with backups enabled, a download that overwrites an existing local file
\* of different content leaves a backup entry of that path holding the hash of
\* the overwritten content, recorded during the run.
C2_OverwriteHasBackup ==
    [][(pc = "exec" /\ options.backupEnabled)
        => \A p \in Paths :
            (local[p].exists /\ local'[p].content # local[p].content)
            => \E b \in backups' :
                /\ b.originalPath = p
                /\ b.fileHash = calculateFileHash(local[p].content)
                /\ b.createdAt = clock]_vars

\* the run follows a completed non-dry run with no change in between, not to
\* the files, the store or the permissions, has met no error of its own and
\* has its final operation list
Resolved ==
    /\ pc \in {"exec", "closing", "done", "rejected"}
    /\ result.errors = <<>>
    /\ lastRun.kind = "done"
    /\ ~lastRun.dryRun
    /\ lastRun.unreadable = unreadable

\* C3 as stated: after a completed non-dry run, an immediately following run
\* plans no operation.
C3_SecondRunPlansNothing ==
    Resolved
        => result.operations = <<>>

\* C3 as amended: after a non-dry run that reported success, an immediately
\* following run plans no operation.
C3_SecondRunAfterSuccessPlansNothing ==
    (Resolved /\ lastRun.clean)
        => result.operations = <<>>

\* C3: a run after a successful non-dry run that synced something, planning
\* nothing
C3_Witness ==
    /\ Resolved
    /\ lastRun.clean
    /\ pc = "done"
    /\ result.operations = <<>>
    /\ \E p \in Paths : syncStates[p].tracked /\ local[p].exists /\ remote[p].exists

\* C4: the persisted entry of a path changes only to the entry written by an
\* operation on that path that succeeded (was added to executedOperations), or
\* goes away with the store file.
C4_PersistedEntryIsSynced ==
    [][\A p \in Paths :
        LoadStates(storeFile')[p] # LoadStates(storeFile)[p]
        => \/ LoadStates(storeFile')[p] = NoEntry
           \/ /\ pc = "exec"
              /\ Current.filePath = p
              /\ result'.executedOperations = Append(result.executedOperations, Current)]_vars

\* C5: a dry run changes no local file, no remote file and not the store file.
C5_DryRunChangesNothing ==
    [][(pc # "idle" /\ options.dryRun)
        => UNCHANGED <<local, remote, storeFile>>]_vars

\* the operations attempted so far, in plan order
Attempted == SubSeq(result.operations, 1, opIndex - 1)

\* the operations of ops at the positions in keep, in order
Restrict(ops, keep) ==
    LET pick[i \in 0..Len(ops)] ==
            IF i = 0 THEN <<>>
            ELSE IF i \in keep THEN Append(pick[i - 1], ops[i]) ELSE pick[i - 1]
    IN  pick[Len(ops)]

InSeq(x, seq) == \E i \in 1..Len(seq) : seq[i] = x

\* the run executes its plan or has executed it
Executing ==
    /\ pc \in {"exec", "closing", "done", "rejected"}
    /\ ~options.dryRun
    /\ result.operations # <<>>

\* C6: in a non-dry run every operation attempted so far is in exactly one of
\* executedOperations and skippedOperations, both in plan order; every skipped
\* operation has an error naming it; and when the loop has ended every planned
\* operation was attempted, those after a failed one included.
C6_FailureSkipsOnlyThatOperation ==
    Executing =>
        /\ \E keep \in SUBSET (1..Len(Attempted)) :
            /\ result.executedOperations = Restrict(Attempted, keep)
            /\ result.skippedOperations =
                    Restrict(Attempted, (1..Len(Attempted)) \ keep)
        /\ \A i \in 1..Len(result.skippedOperations) :
            InSeq(<<"Failed to execute", result.skippedOperations[i].type,
                    result.skippedOperations[i].filePath>>, result.errors)
        /\ pc # "exec" => opIndex = Len(result.operations) + 1

\* C6: a finished run whose plan had an operation that failed followed by an
\* operation that was executed
C6_Witness ==
    /\ Executing
    /\ pc = "done"
    /\ \E i, j \in 1..Len(result.operations) :
        /\ i < j
        /\ InSeq(result.operations[i], result.skippedOperations)
        /\ InSeq(result.operations[j], result.executedOperations)

\* C7: sync() never rejects, and a run in which something failed resolves with
\* success = false and a non-empty errors list.
C7_NeverRejects ==
    /\ pc # "rejected"
    /\ (pc = "done" /\ ~result.success) => result.errors # <<>>

\* the upload pass has run and result.operations is its plan followed by the
\* download plan
UploadPlanned == pc = "planned" /\ options.direction \in {"upload", "both"}

\* C8 as stated: an upload is planned for a local file iff it has no state
\* entry or its content hash differs from the stored localHash.
C8_UploadIffNewOrHashChanged ==
    UploadPlanned =>
        \A p \in Paths :
            HasOp(result.operations, "upload", p)
            <=> /\ local[p].exists
                /\ \/ ~syncStates[p].tracked
                   \/ calculateFileHash(local[p].content) # syncStates[p].localHash

\* C8 as amended: an upload is planned for a local file iff its content can be
\* read and it has no state entry or its content hash differs from the stored
\* localHash; a file that cannot be read gets no operation.
C8_UploadIffReadableNewOrHashChanged ==
    UploadPlanned =>
        \A p \in Paths :
            HasOp(result.operations, "upload", p)
            <=> /\ local[p].exists
                /\ p \notin unreadable
                /\ \/ ~syncStates[p].tracked
                   \/ calculateFileHash(local[p].content) # syncStates[p].localHash

\* C8: a tracked file whose modification time changed and whose bytes did not,
\* with no upload planned
C8_Witness ==
    /\ UploadPlanned
    /\ \E p \in Paths :
        /\ local[p].exists
        /\ p \notin unreadable
        /\ syncStates[p].tracked
        /\ local[p].mtime > syncStates[p].localMtime
        /\ calculateFileHash(local[p].content) = syncStates[p].localHash
        /\ ~HasOp(result.operations, "upload", p)

HasIssue(code) == InSeq(<<"issue", code>>, result.errors)

\* validation has run and its remote scan completed
RemoteValidated ==
    /\ pc = "plan"
    /\ result.validated
    /\ options.direction \in {"download", "both"}
    /\ ~HasIssue("REMOTE_SCAN_ERROR")

\* C9: for a tracked remote file modified after the last sync, the validator
\* reports both_modified iff the local file exists and its hash differs from
\* the stored hash, local_deleted iff the local file is missing, remote_newer
\* iff the local file exists with the stored hash.
C9_RemoteConflictByHash ==
    RemoteValidated =>
        \A p \in Paths :
            (/\ remote[p].exists
             /\ syncStates[p].tracked
             /\ remote[p].updatedAt > syncStates[p].lastSyncTime)
            => /\ HasConflict(result.conflicts, p, "both_modified")
                  <=> (/\ local[p].exists
                       /\ calculateFileHash(local[p].content) # syncStates[p].localHash)
               /\ HasConflict(result.conflicts, p, "local_deleted")
                  <=> ~local[p].exists
               /\ HasConflict(result.conflicts, p, "remote_newer")
                  <=> (/\ local[p].exists
                       /\ calculateFileHash(local[p].content) = syncStates[p].localHash)

\* validation has run and its local scan completed
LocalValidated ==
    /\ pc = "plan"
    /\ result.validated
    /\ options.direction \in {"upload", "both"}
    /\ ~HasIssue("LOCAL_SCAN_ERROR")

\* C10: validateLocalFiles flags a tracked readable local file iff its hash
\* differs from the stored hash and the stored remote-modified time is later
\* than the last sync time.
C10_LocalConflictNeedsRemoteChange ==
    LocalValidated =>
        \A p \in Paths :
            (local[p].exists /\ syncStates[p].tracked /\ p \notin unreadable)
            => (HasConflict(result.conflicts, p, "local_newer")
                <=> /\ calculateFileHash(local[p].content) # syncStates[p].localHash
                    /\ syncStates[p].remoteMtime > syncStates[p].lastSyncTime)

\* conflict handling and the dry-run gate have just run without an error so far
JustResolved == pc \in {"exec", "closing"} /\ opIndex = 1 /\ result.errors = <<>>

\* the path is tracked and only its local copy changed since the last sync
OnlyLocalChanged(p) ==
    /\ syncStates[p].tracked
    /\ local[p].exists
    /\ p \notin unreadable
    /\ calculateFileHash(local[p].content) # syncStates[p].localHash
    /\ remote[p].exists
    /\ ~(remote[p].updatedAt > syncStates[p].lastSyncTime)

\* the path is tracked and only its remote copy changed since the last sync
OnlyRemoteChanged(p) ==
    /\ syncStates[p].tracked
    /\ remote[p].exists
    /\ remote[p].updatedAt > syncStates[p].lastSyncTime
    /\ local[p].exists
    /\ calculateFileHash(local[p].content) = syncStates[p].localHash
    /\ ~(local[p].mtime > syncStates[p].lastSyncTime)

\* C11: with the default options, the final plan of a run holds an upload of
\* every tracked file changed only locally and a download of every tracked
\* file changed only remotely (the plan is what the run then executes), when
\* nothing has failed and no other client has interfered.
C11_OneSidedChangeIsTransferred ==
    (JustResolved /\ options = DefaultOptions /\ failures = 0)
        => \A p \in Paths :
            /\ OnlyLocalChanged(p) => HasOp(result.operations, "upload", p)
            /\ OnlyRemoteChanged(p) => HasOp(result.operations, "download", p)

\* handleConflicts has just run under remote_wins
RemoteWinsApplied ==
    /\ pc \in {"exec", "closing"}
    /\ opIndex = 1
    /\ result.validated
    /\ Len(result.conflicts) > 0
    /\ result.conflictsResolved = Len(result.conflicts)
    /\ options.conflictResolution = "remote_wins"

\* C12 as stated: under remote_wins the final operations hold a download and
\* no upload of every path reported both_modified.
C12_RemoteWinsDownloads ==
    RemoteWinsApplied =>
        \A p \in Paths :
            HasConflict(result.conflicts, p, "both_modified")
            => /\ HasOp(result.operations, "download", p)
               /\ ~HasOp(result.operations, "upload", p)

\* C12 as amended: under remote_wins the final operations hold no upload of a
\* path reported both_modified, and hold a download of it iff the path is
\* still in the remote listing when planning lists it.
C12_RemoteWinsDownloadsWhatIsListed ==
    RemoteWinsApplied =>
        \A p \in Paths :
            HasConflict(result.conflicts, p, "both_modified")
            => /\ HasOp(result.operations, "download", p) <=> remote[p].exists
               /\ ~HasOp(result.operations, "upload", p)

\* C12: remote_wins took the upload of a both_modified path out of the plan and
\* left its download
C12_Witness ==
    /\ RemoteWinsApplied
    /\ \E p \in Paths :
        /\ HasConflict(result.conflicts, p, "both_modified")
        /\ HasOp(result.operations, "download", p)
        /\ result.totalOperations > Len(result.operations)

\* handleConflicts has run over a non-empty conflict list
ConflictsHandled ==
    /\ pc \in {"exec", "closing", "done", "rejected"}
    /\ result.validated
    /\ Len(result.conflicts) > 0
    /\ result.conflictsResolved = Len(result.conflicts)

NamesPath(warning, p) == warning[Len(warning)] = p

\* C13: under "ask", no operation on a conflicted path stays in operations or
\* reaches executedOperations, a warning names the path, and the operations
\* handleConflicts leaves are those it leaves under "skip".
C13_AskIsSkip ==
    /\ (ConflictsHandled /\ options.conflictResolution = "ask")
        => \A i \in 1..Len(result.conflicts) :
            LET p == result.conflicts[i].filePath
            IN  /\ \A j \in 1..Len(result.operations) :
                        result.operations[j].filePath # p
                /\ \A j \in 1..Len(result.executedOperations) :
                        result.executedOperations[j].filePath # p
                /\ \E j \in 1..Len(result.warnings) : NamesPath(result.warnings[j], p)
    /\ (pc = "planned" /\ result.validated)
        => handleConflicts(result.conflicts, result, "ask").operations
            = handleConflicts(result.conflicts, result, "skip").operations

\* C13: a finished run under "ask" whose plan lost an operation to a conflict
C13_Witness ==
    /\ ConflictsHandled
    /\ options.conflictResolution = "ask"
    /\ pc = "done"
    /\ result.totalOperations > Len(result.operations)

\* validation said no and force is off
Gated == pc # "idle" /\ result.validated /\ ~result.canProceed /\ ~options.force

\* C14: a run that validation blocks plans and executes nothing, ends with
\* success = false and an error, and changes no local file, no remote file
\* and no state entry; with force the same validation result goes on to
\* planning.
C14_ValidationGate ==
    /\ [](Gated =>
            /\ pc \in {"closing", "done", "rejected"}
            /\ result.operations = <<>>
            /\ result.executedOperations = <<>>
            /\ ~result.success
            /\ result.errors # <<>>)
    /\ [][(Gated \/ Gated') =>
            /\ local' = local
            /\ remote' = remote
            /\ LoadStates(storeFile') = LoadStates(storeFile)]_vars
    /\ [][(pc = "idle" /\ pc' # "idle" /\ result'.validated /\ ~result'.canProceed
            /\ options.force) => pc' = "plan"]_vars

\* C14: a blocked run that has returned its result
C14_Witness == Gated /\ pc = "done"

TooManyConflicts == Len(validation.conflicts) > MaxConflictCount

\* C15: validate returns canProceed = false whenever an issue is an error or
\* the conflicts exceed maxConflictCount, unless allowForce is set; without an
\* error and without too many conflicts it returns canProceed = true, whatever
\* warnings and infos there are.
C15_CanProceed ==
    validation.returned =>
        /\ ((HasErrors(validation.issues) \/ TooManyConflicts) /\ ~validation.allowForce)
            => ~validation.canProceed
        /\ (~HasErrors(validation.issues) /\ ~TooManyConflicts)
            => validation.canProceed

\* C15: more conflicts than the ceiling, no error, no force: cannot proceed
C15_Witness ==
    /\ validation.returned
    /\ TooManyConflicts
    /\ ~HasErrors(validation.issues)
    /\ Len(validation.issues) > 0
    /\ ~validation.allowForce
    /\ ~validation.canProceed

BackupFile(id) == CHOOSE f \in backupFiles : f.backupId = id

HasBackupFile(id) == \E f \in backupFiles : f.backupId = id

\* C16: every backup entry, in memory or in the store file, whose backup file
\* exists records as fileHash the hash of the content of that file.
C16_BackupHashMatchesFile ==
    \A b \in backups \cup LoadBackups(storeFile) :
        HasBackupFile(b.backupId) =>
            b.fileHash = calculateFileHash(BackupFile(b.backupId).content)

\* C16: a recorded backup whose original has been written since
C16_Witness ==
    /\ bm.success = "yes"
    /\ \E b \in LoadBackups(storeFile) :
        /\ HasBackupFile(b.backupId)
        /\ b.fileHash = calculateFileHash(BackupFile(b.backupId).content)
        /\ local[b.originalPath].content # BackupFile(b.backupId).content

\* the copy of the running createBackup differs from what was hashed
Mismatch ==
    /\ bm.pc = "copied"
    /\ calculateFileHash(BackupFile(bm.backupId).content) # bm.fileHash

EntriesOf(bks, p) == {b \in bks : b.originalPath = p}

\* a createBackup call has returned success and none has started since
BackupSucceeded == bm.pc = "idle" /\ bm.success = "yes"

\* after a successful call the path it backed up is within retentionCount
WithinRetention ==
    BackupSucceeded =>
        LET mine == EntriesOf(backups, bm.originalPath)
        IN  /\ Cardinality(mine) <= bm.retentionCount
            /\ bm.succeeded[bm.originalPath] >= bm.retentionCount
                    => Cardinality(mine) = bm.retentionCount
            /\ LoadBackups(storeFile) = backups
            /\ \A b \in mine : HasBackupFile(b.backupId)

C19_CleanupSparesRestoredBackup ==
    [][rs.pc = "checked" =>
            /\ HasBackupFile(rs.backupId)'
            /\ \E b \in backups' : b.backupId = rs.backupId]_vars

\* C20: the store file is never a partial serialization: it changes only by
\* the rename of a completely written temp file, to the complete serialization
\* of the maps in memory; a process stop leaves it as it is, and the next
\* initialize() loads exactly what it holds.
C20_StoreFileIsWhole ==
    /\ [](storeFile.status \in {"missing", "ok"})
    /\ [][storeFile' # storeFile =>
            /\ saving = "written"
            /\ storeFile' = save(syncStates, backups)]_vars
    /\ [][(initialized /\ ~initialized') => storeFile' = storeFile]_vars
    /\ [][(~initialized /\ initialized') =>
            /\ syncStates' = LoadStates(storeFile)
            /\ backups' = LoadBackups(storeFile)]_vars

\* C20: the process stopped while the temp file was being written over an
\* earlier store file, and the store has been initialized again
C20_Witness ==
    /\ tempFile.status = "partial"
    /\ saving = "no"
    /\ initialized
    /\ storeFile.status = "ok"
    /\ syncStates = storeFile.syncStates
    /\ backups = storeFile.backups
    /\ backups # {}

\* the run has planned, after initialize() found no store file or one it could
\* not parse
PlannedWithoutStore == pc = "planned" /\ storeFile.status # "ok"

Uploads == options.direction \in {"upload", "both"}

Downloads == options.direction \in {"download", "both"}

\* initialize() on a missing or unparsable store file does not fail the run:
\* it leaves an empty index, and a run that nothing else disturbs goes on to
\* validate and plan
LostStoreLoadsEmpty ==
    [][(pc = "idle" /\ pc' # "idle" /\ storeFile.status # "ok"
            /\ failures' = failures) =>
            /\ initialized'
            /\ syncStates' = EmptyStates
            /\ backups' = {}
            /\ pc' = "plan"]_vars

\* C21 as stated: after a missing or unparsable store file the sync plans, in
\* the directions it covers, every local file as a new upload and every remote
\* file as a new download.
C21_LostStorePlansEverything ==
    /\ LostStoreLoadsEmpty
    /\ [](PlannedWithoutStore =>
            \A p \in Paths :
                /\ (Uploads /\ local[p].exists) =>
                        InSeq(Operation("upload", p, "New local file", FALSE),
                              result.operations)
                /\ (Downloads /\ remote[p].exists) =>
                        InSeq(Operation("download", p, "New remote file", FALSE),
                              result.operations))

\* C21: after a missing or unparsable store file the index is empty and the
\* sync plans, in the directions it covers, every local file it can read as a
\* new upload and every remote file as a new download, and nothing else.
C21_LostStorePlansReadable ==
    /\ LostStoreLoadsEmpty
    /\ [](PlannedWithoutStore =>
            /\ syncStates = EmptyStates
            /\ backups = {}
            /\ \A p \in Paths :
                /\ (Uploads /\ local[p].exists /\ p \notin unreadable) <=>
                        InSeq(Operation("upload", p, "New local file", FALSE),
                              result.operations)
                /\ (Downloads /\ remote[p].exists) <=>
                        InSeq(Operation("download", p, "New remote file", FALSE),
                              result.operations)
            /\ \A i \in 1..Len(result.operations) :
                    result.operations[i].reason \in {"New local file", "New remote file"})

\* C21: a second run finds the store file unparsable and plans an upload and a
\* download
C21_Witness ==
    /\ PlannedWithoutStore
    /\ storeFile.status = "corrupt"
    /\ runs = 2
    /\ \E p, q \in Paths :
        /\ HasOp(result.operations, "upload", p)
        /\ HasOp(result.operations, "download", q)

\* the step holds a saveFileState whose write failed: an entry was set in
\* memory and the store file does not hold it
StateWriteFails ==
    /\ pc = "exec"
    /\ pc' \in {"exec", "closing"}
    /\ syncStates' # syncStates
    /\ LoadStates(storeFile') # syncStates'

\* the step holds a createBackup whose store write failed: the file was copied
\* and the call still returned a failure
BackupWriteFails ==
    /\ pc = "exec"
    /\ pc' \in {"exec", "closing"}
    /\ backupFiles' \ backupFiles # {}
    /\ Len(result'.warnings) > Len(result.warnings)

\* the save of close() fails
CloseWriteFails == pc = "closing" /\ pc' = "rejected"

\* C22: a step of a sync run in which a write of the store file fails leaves
\* the store file without the failed content and the run unable to report
\* success: an error is recorded (success is errors.length === 0 and errors are
\* never removed), or sync() itself rejects.
C22_StoreWriteFailureIsFatal ==
    /\ [][StateWriteFails =>
            /\ LoadStates(storeFile') = LoadStates(storeFile)
            /\ result'.errors # <<>>
            /\ ~result'.success]_vars
    /\ [][BackupWriteFails =>
            /\ result'.errors # <<>>
            /\ ~result'.success]_vars
    /\ [][CloseWriteFails => storeFile' = storeFile]_vars

\* some upload or download of the path is among the executed operations
Completed(p) ==
    \/ HasOp(result.executedOperations, "upload", p)
    \/ HasOp(result.executedOperations, "download", p)

\* C23: through the first sync run on an empty store, and when it has ended,
\* the store file holds an entry for a path exactly when an upload or a
\* download of that path is among the executed operations.
C23_EntryIffCompleted ==
    (runs = 1 /\ pc \in {"exec", "closing", "done"}) =>
        \A p \in Paths : LoadStates(storeFile)[p].tracked <=> Completed(p)

\* an iteration of executeOperations on an operation flagged backupRequired
\* while backups are disabled
ExecutesWithBackupsOff ==
    /\ pc = "exec"
    /\ pc' \in {"exec", "closing"}
    /\ ~options.backupEnabled
    /\ Current.backupRequired

\* the operation can do its own work: the file it reads or writes can be opened
\* and the remote file it fetches is there
Workable(op) ==
    /\ op.filePath \notin unreadable
    /\ op.type = "upload" => local[op.filePath].exists
    /\ op.type = "download" => remote[op.filePath].exists

\* C24: with backups disabled, an iteration on an operation flagged
\* backupRequired copies no file and records no entry, in memory or in the
\* store file, and goes on as after a successful backup: no backup warning, the
\* backup is counted, and unless the operation itself fails it is executed.
C24_DisabledBackupIsNoOpSuccess ==
    [][ExecutesWithBackupsOff =>
            /\ backupFiles' = backupFiles
            /\ backups' = backups
            /\ LoadBackups(storeFile') \subseteq backups
            /\ result'.warnings = result.warnings
            /\ result'.backupsCreated = result.backupsCreated + 1
            /\ (failures' = failures /\ Workable(Current)) =>
                    result'.executedOperations =
                        Append(result.executedOperations, Current)]_vars

\* C24: with backups disabled, an operation flagged backupRequired has been
\* executed, without a warning, and there is no backup
C24_Witness ==
    /\ ~options.backupEnabled
    /\ pc \in {"exec", "closing", "done"}
    /\ backupFiles = {}
    /\ backups = {}
    /\ result.warnings = <<>>
    /\ \E i \in 1..Len(result.executedOperations) :
            result.executedOperations[i].backupRequired

\* the backup id has a record
Recorded(id) == \E b \in backups : b.backupId = id

\* C25: a restoreFromBackup that returns for an id without a record, or with a
\* record whose backup file is not on disk, returns failure and leaves every
\* local file as it was; one that returns success leaves the target with a
\* content whose hash is the recorded fileHash.
C25_RestoreFailsOrMatches ==
    [][(rs' # rs /\ rs'.pc = "idle") =>
            /\ (~Recorded(rs'.backupId) \/ ~HasBackupFile(rs'.backupId)) =>
                    /\ rs'.success = "no"
                    /\ local' = local
            /\ rs'.success = "yes" =>
                    /\ local'[rs'.originalPath].exists
                    /\ calculateFileHash(local'[rs'.originalPath].content) = rs'.fileHash
                    /\ \E b \in backups :
                        /\ b.backupId = rs'.backupId
                        /\ b.fileHash = rs'.fileHash
                        /\ b.originalPath = rs'.originalPath]_vars

\* C25: a restore was refused for a record whose backup file is gone, and the
\* target still holds something else than what was recorded
C25_Witness ==
    /\ rs.pc = "idle"
    /\ rs.success = "no"
    /\ \E b \in backups :
        /\ b.backupId = rs.backupId
        /\ ~HasBackupFile(b.backupId)
        /\ local[b.originalPath].exists
        /\ calculateFileHash(local[b.originalPath].content) # b.fileHash

\* the positions of the calls of one kind in the log of the legacy sync
LogIndex(kind) == {i \in 1..Len(legacy.log) : legacy.log[i][1] = kind}

LoggedFor(kind, p) == InSeq(<<kind, p>>, legacy.log)

\* C26: the legacy sync makes no download call and writes no file under
\* direction upload, makes no upload call under direction download, and under
\* both makes every upload call before the download call and the writes;
\* updateLastSynced is called at most once, as the last call, and exactly once
\* when syncFiles resolves, by which time every file of the selected phases
\* has been transferred.
C26_OnlySelectedPhases ==
    /\ legacy.direction = "upload" =>
            LogIndex("download") = {} /\ LogIndex("write") = {}
    /\ legacy.direction = "download" => LogIndex("upload") = {}
    /\ \A i \in LogIndex("upload"), j \in LogIndex("download") \cup LogIndex("write") :
            i < j
    /\ Cardinality(LogIndex("updateLastSynced")) <= 1
    /\ \A i \in LogIndex("updateLastSynced") : i = Len(legacy.log)
    /\ legacy.outcome = "resolved" =>
            /\ Cardinality(LogIndex("updateLastSynced")) = 1
            /\ legacy.direction = "upload" =>
                    \A p \in Paths : local[p].exists =>
                        /\ LoggedFor("upload", p)
                        /\ remote[p].exists
                        /\ remote[p].content = local[p].content
            /\ legacy.direction \in {"download", "both"} =>
                    /\ Cardinality(LogIndex("download")) = 1
                    /\ \A p \in Paths : remote[p].exists =>
                        /\ LoggedFor("write", p)
                        /\ local[p].exists
                        /\ local[p].content = remote[p].content
            /\ legacy.direction = "both" =>
                    \A p \in Paths : LoggedFor("upload", p) => LoggedFor("write", p)

\* C26: a sync in both directions has resolved after an upload and a write
C26_Witness ==
    /\ legacy.direction = "both"
    /\ legacy.outcome = "resolved"
    /\ \E p, q \in Paths :
        /\ p # q
        /\ LoggedFor("upload", p)
        /\ ~LoggedFor("upload", q)
        /\ LoggedFor("write", q)

\* C27: a legacy sync of a project that is not configured, or in which a read,
\* an upload, the download or a write fails, rejects with that error: the
\* failing step transfers nothing, nothing is transferred after it, a failure
\* in the upload phase leaves the download phase unstarted, and
\* updateLastSynced is not called.
C27_FailureRejectsAndStops ==
    /\ [](legacy.outcome = "rejected" =>
            /\ legacy.pc = "done"
            /\ legacy.error # "none"
            /\ LogIndex("updateLastSynced") = {}
            /\ legacy.error \in {"not found", "read", "upload"} =>
                    LogIndex("download") = {} /\ LogIndex("write") = {})
    /\ []((~legacy.configured /\ legacy.pc # "idle") =>
            /\ legacy.outcome = "rejected"
            /\ legacy.error = "not found"
            /\ legacy.log = <<>>)
    /\ [][failures' > failures =>
            /\ legacy'.outcome = "rejected"
            /\ local' = local
            /\ remote' = remote]_vars
    /\ [][legacy.outcome = "rejected" => UNCHANGED <<local, remote, legacy>>]_vars

\* C27: the second upload of a sync in both directions failed, with files on
\* the remote side still to download
C27_Witness ==
    /\ legacy.direction = "both"
    /\ legacy.outcome = "rejected"
    /\ legacy.error = "upload"
    /\ Cardinality(LogIndex("upload")) = 2
    /\ \E p \in Paths : remote[p].exists

\* C28: listKnowledgeFiles returns exactly the files uploaded and not deleted
\* since; a successful upload adds one file, with an id no file had and the
\* given path and content, and changes no other; a successful delete removes
\* the file with the given id and no other; a call that names no project of
\* the client, or a delete of an id no file has, rejects and changes nothing.
C28_MockFilesAreUploadsMinusDeletes ==
    /\ []((mock.last.op = "list" /\ mock.last.ok) => mock.listed = mock.live)
    /\ [](mock.files = mock.live)
    /\ [][mock'.calls # mock.calls =>
            LET last == mock'.last
                file == [id |-> last.id, path |-> last.path, content |-> last.content]
            IN  /\ (last.op = "upload" /\ last.ok) =>
                        /\ \A f \in mock.files : f.id # last.id
                        /\ mock'.files = mock.files \cup {file}
                /\ (last.op = "delete" /\ last.ok) =>
                        /\ \E f \in mock.files : f.id = last.id
                        /\ mock'.files = {f \in mock.files : f.id # last.id}
                /\ (last.op = "list" \/ ~last.ok) => mock'.files = mock.files
                /\ ~last.known => ~last.ok
                /\ (last.op = "delete" /\ \A f \in mock.files : f.id # last.id)
                        => ~last.ok
                /\ (last.known /\ last.op \in {"upload", "list"}) => last.ok]_vars

\* C28: a listing after two uploads and the delete of the first of them
C28_Witness ==
    /\ mock.last.op = "list"
    /\ mock.last.ok
    /\ Cardinality(mock.listed) = 1
    /\ mock.issued = 2
    /\ \E f \in mock.listed : f.id = 2

Tracked == {f.path : f \in tracker.files}

\* C29: a path is among the tracker's files exactly when the most recent add,
\* change or unlink told of it since the last close() was an add or a change;
\* and a handler emits the event of its name for its path.
C29_TrackedIffLastEventAddOrChange ==
    /\ [](\A p \in Paths : p \in Tracked <=> tracker.latest[p] \in {"add", "change"})
    /\ [][\A p \in Paths :
            (tracker'.latest[p] # tracker.latest[p] /\ tracker'.latest[p] # "none")
                => tracker'.emitted = <<tracker'.latest[p], p>>]_vars

\* handleConflicts runs in this step under local_wins
LocalWinsStep ==
    /\ pc = "planned"
    /\ pc' \in {"exec", "closing"}
    /\ result.validated
    /\ Len(result.conflicts) > 0
    /\ options.conflictResolution = "local_wins"

Conflicted(p) == \E i \in 1..Len(result.conflicts) : result.conflicts[i].filePath = p

\* C30: under local_wins, handleConflicts leaves no download of a path with a
\* reported conflict, keeps every planned upload (in its order and unaltered),
\* and leaves the operations on paths without a conflict as they were.
C30_LocalWinsKeepsUploads ==
    [][LocalWinsStep =>
        LET IsUpload(op) == op.type = "upload"
            Unconflicted(op) == ~Conflicted(op.filePath)
        IN  /\ \A p \in Paths :
                    Conflicted(p) => ~HasOp(result'.operations, "download", p)
            /\ SelectSeq(result'.operations, IsUpload)
                    = SelectSeq(result.operations, IsUpload)
            /\ SelectSeq(result'.operations, Unconflicted)
                    = SelectSeq(result.operations, Unconflicted)]_vars

\* C30: local_wins has just taken the download of a conflicted path out of a
\* plan that keeps the upload of that path and an operation on another path
C30_Witness ==
    /\ pc \in {"exec", "closing"}
    /\ opIndex = 1
    /\ result.validated
    /\ options.conflictResolution = "local_wins"
    /\ result.conflictsResolved = Len(result.conflicts)
    /\ result.totalOperations > Len(result.operations)
    /\ \E p, q \in Paths :
        /\ Conflicted(p)
        /\ ~Conflicted(q)
        /\ HasOp(result.operations, "upload", p)
        /\ \E i \in 1..Len(result.operations) : result.operations[i].filePath = q

\* handleConflicts runs in this step under backup_and_merge
MergeStep ==
    /\ pc = "planned"
    /\ pc' \in {"exec", "closing"}
    /\ result.validated
    /\ Len(result.conflicts) > 0
    /\ options.conflictResolution = "backup_and_merge"

\* this step of executeOperations executes an upload of a conflicted path
\* under backup_and_merge
MergedUpload(p) ==
    /\ pc = "exec"
    /\ options.conflictResolution = "backup_and_merge"
    /\ result.validated
    /\ Conflicted(p)
    /\ result.operations[opIndex].type = "upload"
    /\ result.operations[opIndex].filePath = p
    /\ Len(result'.executedOperations) > Len(result.executedOperations)

\* C31: under backup_and_merge, conflict handling removes no operation and
\* leaves the upload of every conflicted path with backupRequired; an upload of
\* a conflicted path is executed with a backup of the local copy on record and
\* on disk; and in a run without an operation error the upload and the
\* download of a conflicted path are both executed.
C31_BackupAndMergeKeepsBoth ==
    /\ [][MergeStep =>
            /\ Len(result'.operations) = Len(result.operations)
            /\ \A i \in 1..Len(result.operations) :
                /\ result'.operations[i].type = result.operations[i].type
                /\ result'.operations[i].filePath = result.operations[i].filePath
                /\ (result.operations[i].type = "upload"
                        /\ Conflicted(result.operations[i].filePath))
                    => result'.operations[i].backupRequired]_vars
    /\ [][\A p \in Paths :
            MergedUpload(p) =>
                \E e \in backups' :
                    /\ e.originalPath = p
                    /\ e.createdAt = clock
                    /\ e.fileHash = calculateFileHash(local[p].content)
                    /\ \E f \in backupFiles' :
                        f.backupId = e.backupId /\ f.content = local[p].content]_vars
    /\ [](\A p \in Paths :
            (/\ ConflictsHandled
             /\ options.conflictResolution = "backup_and_merge"
             /\ pc = "done"
             /\ result.errors = <<>>
             /\ Conflicted(p))
            => \A i \in 1..Len(result.operations) :
                result.operations[i].filePath = p
                => HasOp(result.executedOperations, result.operations[i].type, p))

\* the operations a run with these options plans and keeps after conflict
\* handling, from the entries, the trees and the conflicts of this state
PlannedWith(o) ==
    LET planned == [result EXCEPT
                      !.operations = planOperations(o.direction, syncStates, local,
                                                    remote, unreadable)]
    IN  IF result.validated /\ Len(result.conflicts) > 0
        THEN handleConflicts(result.conflicts, planned, o.conflictResolution).operations
        ELSE planned.operations

\* a dry run has planned, handled its conflicts and passed the gate
DryRunPlanned ==
    /\ options.dryRun
    /\ pc \in {"closing", "done"}
    /\ result.errors = <<>>

PlanningFails ==
    /\ pc \in {"plan", "overtaken"}
    /\ pc' = "closing"
    /\ options.direction = "both"
    /\ Len(result'.errors) > Len(result.errors)

\* C33: with direction both, a planning error stops the planning of its own
\* direction only: the plan then holds the operations of the other direction
\* (the downloads when the local scan fails, the uploads when the remote
\* listing fails).
C33_PlanningErrorKeepsOtherDirection ==
    [][PlanningFails =>
        result'.operations \in
            {planUploadOperations(syncStates, local, unreadable),
             planDownloadOperations(syncStates, local, remote)}]_vars

---------------------------------------------------------------------------
(* SyncValidator.detectConflicts on its own, over the entries of a store    *)
(* that may hold tombstones                                                 *)

\* an entry of a synced file, and the same entry marked deleted
SyncedEntry ==
    [NoEntry EXCEPT !.tracked = TRUE, !.localHash = calculateFileHash(1),
                    !.remoteHash = calculateFileHash(1), !.localMtime = 1,
                    !.remoteMtime = 1, !.lastSyncTime = 1, !.syncDirection = "upload"]

Tombstone == [SyncedEntry EXCEPT !.isDeleted = TRUE]

InitDetect ==
    /\ NoCalls
    /\ backupFiles = {}
    /\ backups = {}
    /\ initialized = TRUE
    /\ options = DefaultOptions
    /\ result = InitialResult
    /\ pc = "idle"
    /\ opIndex = 1
    /\ unreadable = {}
    /\ lastRun = NoRun
    /\ clock = 1
    /\ runs = 0
    /\ failures = 0
    /\ local \in [Paths -> {NoLocal, [exists |-> TRUE, content |-> 1, mtime |-> 1]}]
    /\ remote \in [Paths -> {NoRemote, [exists |-> TRUE, content |-> 1, updatedAt |-> 1]}]
    /\ \E states \in [Paths -> {NoEntry, SyncedEntry, Tombstone}] :
        /\ syncStates = states
        /\ storeFile = save(states, {})

\* the deleted-file check runs and returns its conflicts
DetectConflicts ==
    /\ ~validation.returned
    /\ validation' = [validation EXCEPT
            !.returned = TRUE,
            !.conflicts = detectConflicts(syncStates, local, remote)]
    /\ UNCHANGED <<world, engine, lastRun, clock, runs, failures, bm, rs, tempFile,
                   saving, legacy, mock, tracker, upload>>

NextDetect == DetectConflicts

DetectSpec == InitDetect /\ [][NextDetect]_vars

\* C34: the deleted-file check flags local_deleted for exactly the entries that
\* are not tombstoned, whose local file is gone and whose path is in the remote
\* listing; a tombstoned entry is never flagged.
C34_LocalDeletedOnlyForLiveEntries ==
    validation.returned =>
        \A p \in Paths :
            HasConflict(validation.conflicts, p, "local_deleted")
            <=> /\ syncStates[p].tracked
                /\ ~syncStates[p].isDeleted
                /\ ~local[p].exists
                /\ remote[p].exists

\* C35: with direction upload no download is planned and the run writes no
\* local file; with direction download no upload is planned and the run creates
\* or changes no remote file; with direction both every upload of the plan
\* comes before every download.
C35_DirectionHonoured ==
    /\ [](\A i \in 1..Len(result.operations) :
            /\ options.direction = "upload" => result.operations[i].type # "download"
            /\ options.direction = "download" => result.operations[i].type # "upload"
            /\ \A j \in 1..Len(result.operations) :
                (result.operations[i].type = "download"
                    /\ result.operations[j].type = "upload") => j < i)
    /\ [][pc \notin {"idle", "plan"} =>
            /\ options.direction = "upload" => local' = local
            /\ options.direction = "download" => remote' = remote]_vars

\* C35: a run under direction both has executed a plan that holds an upload
\* and, after it, a download
C35_Witness ==
    /\ pc = "done"
    /\ options.direction = "both"
    /\ result.success
    /\ \E i, j \in 1..Len(result.executedOperations) :
        /\ i < j
        /\ result.executedOperations[i].type = "upload"
        /\ result.executedOperations[j].type = "download"

---------------------------------------------------------------------------
(* SafeSync.executeUpload on its own, await by await, while the user edits   *)
(* the files, and the planning of the run that follows                       *)

InitUpload ==
    /\ NoEngine
    /\ NoOthers
    /\ local \in LocalFiles
    /\ remote = [p \in Paths |-> NoRemote]

\* what an upload does not touch
besideUpload == <<backupFiles, backups, initialized, options, result, pc, opIndex,
                  unreadable, lastRun, runs, failures, validation, bm, rs, tempFile,
                  saving, legacy, mock, tracker>>

\* the user saves a file of the project
UserEdits ==
    /\ clock < MaxTime
    /\ clock' = clock + 1
    /\ \E p \in Paths, c \in Contents :
        /\ local[p].content # c
        /\ local' = [local EXCEPT ![p] =
                        [exists |-> TRUE, content |-> c, mtime |-> clock']]
    /\ UNCHANGED <<remote, storeFile, syncStates, upload, besideUpload>>

\* const content = await fs.readFile(localFilePath, 'utf-8'), for an upload
\* the plan holds
UploadRead ==
    /\ upload.pc \in {"idle", "planned"}
    /\ \E p \in Paths :
        /\ local[p].exists
        /\ PlanUpload(p, syncStates[p], local[p], TRUE) # <<>>
        /\ upload' = [pc |-> "read", filePath |-> p, content |-> local[p].content,
                       planned |-> FALSE]
    /\ UNCHANGED <<world, syncStates, clock, besideUpload>>

\* await this.client.uploadKnowledgeFile(projectId, filePath, content)
UploadSend ==
    /\ upload.pc = "read"
    /\ remote' = [remote EXCEPT ![upload.filePath] =
                    [exists |-> TRUE, content |-> upload.content, updatedAt |-> clock]]
    /\ upload' = [upload EXCEPT !.pc = "sent"]
    /\ UNCHANGED <<local, storeFile, backupFiles, syncStates, clock, besideUpload>>

\* fs.stat and calculateFileHash read the file as it is now; then
\* database.saveFileState
UploadSave ==
    /\ upload.pc = "sent"
    /\ LET p == upload.filePath
           syncState == [tracked |-> TRUE,
                         localHash |-> calculateFileHash(local[p].content),
                         remoteHash |-> calculateFileHash(local[p].content),
                         localMtime |-> local[p].mtime,
                         remoteMtime |-> remote[p].updatedAt,
                         lastSyncTime |-> clock,
                         syncDirection |-> "upload",
                         isDeleted |-> FALSE]
       IN  /\ syncStates' = [syncStates EXCEPT ![p] = syncState]
           /\ storeFile' = save(syncStates', backups)
    /\ upload' = [upload EXCEPT !.pc = "saved"]
    /\ UNCHANGED <<local, remote, backupFiles, clock, besideUpload>>

\* planUploadOperations of the next run, for the file that was uploaded
UploadPlansNext ==
    /\ upload.pc = "saved"
    /\ upload' = [upload EXCEPT
            !.pc = "planned",
            !.planned = (PlanUpload(upload.filePath, syncStates[upload.filePath],
                                    local[upload.filePath], TRUE) # <<>>)]
    /\ UNCHANGED <<world, syncStates, clock, besideUpload>>

NextUpload == UserEdits \/ UploadRead \/ UploadSend \/ UploadSave \/ UploadPlansNext

UploadSpec == InitUpload /\ [][NextUpload]_vars

\* C36: after an upload, the stored localHash is the hash of the content that
\* was uploaded, also when the file was edited while the upload was under way;
\* so the next run plans an upload of a file whose content is not the
\* uploaded one.
C36_EditDuringUploadIsNotLost ==
    /\ upload.pc = "saved"
        => syncStates[upload.filePath].localHash = calculateFileHash(upload.content)
    /\ (upload.pc = "planned"
            /\ local[upload.filePath].content # remote[upload.filePath].content)
        => upload.planned

\* the paths the conflicts of the validation name
ConflictedPaths == {p \in Paths : Conflicted(p)}

\* C37: the conflicts validate() returns hold at most one conflict per path, so
\* their number, which is held against maxConflictCount, and the
\* conflictsResolved counter after conflict handling are the number of
\* conflicted paths.
C37_OneConflictPerPath ==
    result.validated
    => /\ \A i, j \in 1..Len(result.conflicts) :
            result.conflicts[i].filePath = result.conflicts[j].filePath => i = j
       /\ Len(result.conflicts) = Cardinality(ConflictedPaths)
       /\ ConflictsHandled => result.conflictsResolved = Cardinality(ConflictedPaths)

\* C38: whenever no call of the store is under way, the entries and backups a
\* fresh instance would load from the store file are those of the running
\* instance, also after a mutation whose write failed.
C38_MemoryIsWhatTheFileHolds ==
    (initialized /\ saving = "no")
    => /\ LoadStates(storeFile) = syncStates
       /\ LoadBackups(storeFile) = backups

\* a step of sync() itself: not a change from outside and not another client
SyncStep == (pc # "idle" \/ pc' # "idle") /\ pc' # "overtaken"

\* the paths the store file has an entry for
Persisted(file) == {p \in Paths : LoadStates(file)[p].tracked}

\* C39: sync() plans no delete_local and no delete_remote operation; no step of
\* a run deletes a local file or a remote file, removes an entry from the
\* index or from the store file, or makes an entry a tombstone.
C39_NothingIsEverDeleted ==
    /\ [](\A i \in 1..Len(result.operations) :
            result.operations[i].type \in {"upload", "download"})
    /\ [](\A p \in Paths :
            ~syncStates[p].isDeleted /\ ~LoadStates(storeFile)[p].isDeleted)
    /\ [][SyncStep =>
            /\ \A p \in Paths :
                /\ local[p].exists => local'[p].exists
                /\ remote[p].exists => remote'[p].exists
                /\ (syncStates[p].tracked /\ initialized')
                        => syncStates'[p].tracked
            /\ Persisted(storeFile) \subseteq Persisted(storeFile')]_vars

\* C39: a second run has ended with an entry in the store file for a path
\* whose local file is gone while the remote project still holds it
C39_Witness ==
    /\ pc = "done"
    /\ runs = 2
    /\ \E p \in Paths :
        /\ p \in Persisted(storeFile)
        /\ syncStates[p].tracked
        /\ ~local[p].exists
        /\ remote[p].exists

\* C40: isWatching implies a watcher; start() while watching creates no second
\* watcher; add() and unwatch() return false exactly when there is no watcher;
\* and after a close() that returned true there is no watcher, isWatching is
\* false and no file is tracked.
C40_WatcherStateIsConsistent ==
    /\ [](tracker.isWatching => tracker.watcher)
    /\ [][(tracker.isWatching /\ tracker'.last.op = "start")
            => tracker'.created = tracker.created]_vars
    /\ [](tracker.last.op \in {"add", "unwatch"}
            => (tracker.last.returned = "false" <=> ~tracker.watcher))
    /\ [](tracker.last = Returned("close", "true")
            => /\ ~tracker.watcher
               /\ ~tracker.isWatching
               /\ Tracked = {})

====
